---- MODULE Spec2Model ----
(***************************************************************************)
(* State-machine model of the arbitrage engine: the execution guard, the   *)
(* nonce manager, the batch RPC helper, the execution pipeline             *)
(* (executeArbPlanTx) and the scan-loop drivers.                            *)
(*                                                                         *)
(* Units.  Token amounts are in micro-tokens (10^12 wei), gas prices in    *)
(* gwei, USD values in micro-USD, so that every product the code forms     *)
(* stays an exact integer.  Time is in milliseconds.                       *)
(***************************************************************************)
EXTENDS Integers, Sequences, FiniteSets, TLC

VARIABLES
  now,              \* Date.now()
  routerBlacklist,  \* executionGuard.ts: Map<router, GuardRecord>
  guardCall,        \* last direct call of the guard API (SpecGuard)
  netLatest,        \* getTransactionCount(signer, "latest")
  netPending,       \* getTransactionCount(signer, "pending")
  lastKnownNonce,   \* SafeNonceManager.lastKnownNonce of the live manager
  nonceReads,       \* network counts read by getNextNonce calls still awaiting
  nonceCall,        \* last completed getNextNonce call
  issued,           \* every value getNextNonce has returned, in order
  loopPc,           \* runScanLoop: "scanning", "executing" or "sleeping"
  enableExecution,  \* ENABLE_EXECUTION
  pc,               \* executeArbPlanTx: the await it is suspended at
  plan,             \* plan.steps: [router, amountIn, minOut]
  stepIdx,          \* the step the validation / final-check walk is at
  amount,           \* the walk's running amount
  profitTokens,     \* validated.profitTokens
  gasLimit,         \* gasLimit
  gasPrice,         \* gasPrice (gwei)
  nextNonce,        \* nextNonce
  metrics,          \* metrics.ts: state
  gates,            \* gates this run has passed, in order
  sent,             \* the executeArb call of this run, if any
  quoted,           \* routers whose getAmountsOut the validation walk called
  outcome,          \* how this run ended
  streak,           \* failures recorded per router since its last successful use
  rpcMode,          \* batchRpc: "native" (batchRpc.ts) or "chunked"
  rpcCalls,         \* batchRpc: calls.length; call k returns data k
  rpcBatchSize,     \* batchRpc: batchSize
  rpcOffset,        \* batchRpc: calls before the batch being processed
  rpcAttempt,       \* batchRpc: attempt
  rpcResults,       \* batchRpc: results
  rpcPc,            \* batchRpc: "running" or "done"
  rpcLog,           \* per batch dispatched: its offset and how its last send ended
  rpcFailed,        \* calls whose eth_call failed
  scanCalls,        \* setInterval driver: state of each runScanLoop invocation
  fnArgs,           \* pure functions: the arguments of the call
  fnResult,         \* pure functions: the value returned
  fnPc              \* pure functions: "idle", "called" or "returned"

guardVars == <<now, routerBlacklist, guardCall>>
nonceVars == <<netLatest, netPending, lastKnownNonce, nonceReads, nonceCall, issued>>
loopVars == <<loopPc, enableExecution>>
runVars == <<pc, plan, stepIdx, amount, profitTokens, gasLimit, gasPrice, nextNonce>>
ghostVars == <<gates, sent, quoted, outcome, streak>>
pipeVars == <<loopVars, runVars, metrics, ghostVars>>
rpcVars == <<rpcMode, rpcCalls, rpcBatchSize, rpcOffset, rpcAttempt, rpcResults,
             rpcPc, rpcLog, rpcFailed>>
fnVars == <<fnArgs, fnResult, fnPc>>
utilVars == <<rpcVars, scanCalls, fnVars>>
vars == <<guardVars, nonceVars, pipeVars, utilVars>>

\* lastKnownNonce: number | null; null is kept apart from every count
Null == -1

----------------------------------------------------------------------------
(* Bounds of the model *)

MaxTicks == 2          \* clock advances per behaviour
ClockStepMs == 300000  \* one clock advance
MaxNonce == 3          \* transactions the signer gets accepted
MaxCalls == 4          \* getNextNonce calls on one manager (SpecNonce)
MaxFailures == 4       \* failures recorded per router (SpecGuard)
MaxScans == 3          \* scans the loop completes

Routers == {"ra", "rb"}

MaxNow == MaxTicks * ClockStepMs

----------------------------------------------------------------------------
(* executionGuard.ts *)

FAILURE_LIMIT == 3
BLACKLIST_WINDOW_MS == 300000

NoRecord == [failures |-> 0, lastFailure |-> 0]

HasRecord(bl, router) == bl[router].failures > 0

\* mutant: the window test excludes its last millisecond
ShouldBlockResult_ExclusiveWindow(bl, router, t) ==
  IF bl[router].failures = 0 THEN FALSE
  ELSE IF t - bl[router].lastFailure >= BLACKLIST_WINDOW_MS THEN FALSE
  ELSE bl[router].failures >= FAILURE_LIMIT

\* shouldBlockRouter: the value returned
ShouldBlockResult(bl, router, t) ==
  IF ~HasRecord(bl, router) THEN FALSE
  ELSE IF t - bl[router].lastFailure > BLACKLIST_WINDOW_MS THEN FALSE
  ELSE bl[router].failures >= FAILURE_LIMIT

\* a shouldBlockRouter that never deletes a record
ShouldBlockEffect_KeepsRecord(bl, router, t) == bl

\* shouldBlockRouter: the blacklist it leaves behind
ShouldBlockEffect(bl, router, t) ==
  IF HasRecord(bl, router) /\ t - bl[router].lastFailure > BLACKLIST_WINDOW_MS
  THEN [bl EXCEPT ![router] = NoRecord]
  ELSE bl

\* recordRouterFailure
RecordRouterFailure(bl, router, t) ==
  IF ~HasRecord(bl, router)
  THEN [bl EXCEPT ![router] = [failures |-> 1, lastFailure |-> t]]
  ELSE [bl EXCEPT ![router] = [failures |-> @.failures + 1, lastFailure |-> t]]

----------------------------------------------------------------------------
(* nonceManager.ts *)

\* mutant: the cached value is never reconciled with the network count
GetNextNonce_NoReconcile(cached, networkNonce) ==
  LET known == IF cached = Null THEN networkNonce ELSE cached
  IN [next |-> known, cached |-> known + 1]

\* a getNextNonce that returns the network's count whatever it has cached
GetNextNonce_TrustNetwork(cached, networkNonce) ==
  [next |-> networkNonce, cached |-> networkNonce + 1]

\* getNextNonce, after the awaits: [next |-> returned, cached |-> new lastKnownNonce]
GetNextNonce(cached, networkNonce) ==
  LET known == IF cached = Null \/ networkNonce > cached THEN networkNonce ELSE cached
  IN [next |-> known, cached |-> known + 1]

----------------------------------------------------------------------------
(* The clock *)

Tick ==
  /\ now + ClockStepMs <= MaxNow
  /\ now' = now + ClockStepMs

----------------------------------------------------------------------------
(* metrics.ts *)

InitialMetrics ==
  [scanCount |-> 0,
   executionsAttempted |-> 0, executionsSucceeded |-> 0, executionsFailed |-> 0,
   skippedValidation |-> 0, skippedGas |-> 0, skippedFinalCheck |-> 0,
   lastErrorCategory |-> "undefined", estimatedNetProfitUsd |-> 0]

RecordScan(m) == [m EXCEPT !.scanCount = @ + 1]

RecordExecutionAttempt(m) == [m EXCEPT !.executionsAttempted = @ + 1]

RecordExecutionSuccess(m, netProfitUsd) ==
  [m EXCEPT !.executionsSucceeded = @ + 1,
            !.estimatedNetProfitUsd = @ + netProfitUsd]

\* mutant: the failure is logged but not counted
RecordExecutionFailure_NotCounted(m, category) ==
  [m EXCEPT !.lastErrorCategory = category]

RecordExecutionFailure(m, category) ==
  [m EXCEPT !.executionsFailed = @ + 1, !.lastErrorCategory = category]

RecordExecutionSkip(m, reason) ==
  CASE reason = "VALIDATION" -> [m EXCEPT !.skippedValidation = @ + 1]
    [] reason = "GAS" -> [m EXCEPT !.skippedGas = @ + 1]
    [] reason = "FINAL_CHECK" -> [m EXCEPT !.skippedFinalCheck = @ + 1]

----------------------------------------------------------------------------
(* executionGuard.ts: classifyError.  An error message is modelled by the  *)
(* set of the classifier's phrases it contains.                             *)

ClassifyError(msg) ==
  IF "insufficient liquidity" \in msg THEN "NO_LIQUIDITY"
  ELSE IF "execution reverted" \in msg THEN "REVERT"
  ELSE IF "nonce" \in msg THEN "NONCE_ERROR"
  ELSE IF "underpriced" \in msg THEN "REPLACEMENT_UNDERPRICED"
  ELSE IF "rate limit" \in msg THEN "RATE_LIMIT"
  ELSE IF "intrinsic gas" \in msg THEN "OUT_OF_GAS"
  ELSE "UNKNOWN"

ErrorMessages ==
  { {"execution reverted"}, {"nonce", "underpriced"} }

----------------------------------------------------------------------------
(* State of the pipeline and of the loop before the first scan *)

\* status: the status of the receipt once the transaction is mined
NoSend == [done |-> FALSE, gates |-> <<>>, nonce |-> Null, status |-> Null]

InitRun ==
  /\ pc = "idle"
  /\ plan = <<>>
  /\ stepIdx = 0
  /\ amount = 0
  /\ profitTokens = 0
  /\ gasLimit = 0
  /\ gasPrice = 0
  /\ nextNonce = Null
  /\ gates = <<>>
  /\ sent = NoSend
  /\ quoted = {}
  /\ outcome = "none"

InitRpcIdle ==
  /\ rpcMode = "native"
  /\ rpcCalls = 0
  /\ rpcBatchSize = 1
  /\ rpcOffset = 0
  /\ rpcAttempt = 0
  /\ rpcResults = <<>>
  /\ rpcPc = "done"
  /\ rpcLog = <<>>
  /\ rpcFailed = {}

InitScanIdle == scanCalls = <<>>

InitFnIdle ==
  /\ fnArgs = <<>>
  /\ fnResult = <<>>
  /\ fnPc = "idle"

InitEngineIdle ==
  /\ loopPc = "sleeping"
  /\ enableExecution = FALSE
  /\ metrics = InitialMetrics
  /\ streak = [r \in Routers |-> 0]
  /\ InitRun

InitPipeIdle ==
  /\ InitRpcIdle
  /\ InitScanIdle
  /\ InitFnIdle
  /\ InitEngineIdle

----------------------------------------------------------------------------
(* SpecGuard: the guard API called directly, in any order, at any time *)

NoNonceCall == [op |-> "none", cached |-> Null, network |-> 0, next |-> 0]

NoGuardCall == [op |-> "none", router |-> "ra", result |-> FALSE,
                before |-> NoRecord, at |-> 0]

InitSignerIdle ==
  /\ now = 0
  /\ routerBlacklist = [r \in Routers |-> NoRecord]
  /\ guardCall = NoGuardCall
  /\ netLatest = 0
  /\ netPending = 0
  /\ lastKnownNonce = Null
  /\ nonceReads = <<>>
  /\ nonceCall = NoNonceCall
  /\ issued = <<>>

InitCommon ==
  /\ InitSignerIdle
  /\ InitPipeIdle

GuardTick ==
  /\ Tick
  /\ guardCall' = [guardCall EXCEPT !.op = "none"]
  /\ UNCHANGED <<routerBlacklist, nonceVars, pipeVars, utilVars>>

GuardShouldBlock(router) ==
  /\ routerBlacklist' = ShouldBlockEffect(routerBlacklist, router, now)
  /\ guardCall' = [op |-> "shouldBlockRouter", router |-> router,
                   result |-> ShouldBlockResult(routerBlacklist, router, now),
                   before |-> routerBlacklist[router], at |-> now]
  /\ UNCHANGED <<now, nonceVars, pipeVars, utilVars>>

GuardRecordFailure(router) ==
  /\ routerBlacklist[router].failures < MaxFailures
  /\ routerBlacklist' = RecordRouterFailure(routerBlacklist, router, now)
  /\ guardCall' = [op |-> "recordRouterFailure", router |-> router,
                   result |-> FALSE,
                   before |-> routerBlacklist[router], at |-> now]
  /\ UNCHANGED <<now, nonceVars, pipeVars, utilVars>>

NextGuard ==
  \/ GuardTick
  \/ \E r \in Routers : GuardShouldBlock(r)
  \/ \E r \in Routers : GuardRecordFailure(r)

SpecGuard == InitCommon /\ [][NextGuard]_vars

----------------------------------------------------------------------------
(* C8 *)

\* C8 (as stated in the specification): shouldBlockRouter returns true iff
\* failures >= FAILURE_LIMIT and now - lastFailure <= BLACKLIST_WINDOW_MS, and
\* in every other case it returns false and no record remains for the router.
C8_ClearedWheneverNotBlocked ==
  guardCall.op = "shouldBlockRouter" =>
    /\ guardCall.result <=>
          (guardCall.before.failures >= 3
             /\ guardCall.at - guardCall.before.lastFailure <= 300000)
    /\ (~guardCall.result => routerBlacklist[guardCall.router].failures = 0)

\* C8 (amended): shouldBlockRouter returns true iff failures >= 3 and
\* now - lastFailure <= 300000; otherwise it returns false, and it clears the
\* record only when now - lastFailure > 300000: a record with fewer than 3
\* failures that is still inside the window is left as it was.
C8_ShouldBlockRouter ==
  guardCall.op = "shouldBlockRouter" =>
    LET before == guardCall.before
        elapsed == guardCall.at - before.lastFailure
        after == routerBlacklist[guardCall.router]
    IN /\ guardCall.result <=> (before.failures >= 3 /\ elapsed <= 300000)
       /\ (before.failures > 0 /\ elapsed > 300000) => after.failures = 0
       /\ ~(before.failures > 0 /\ elapsed > 300000) => after = before

\* a lookup exactly at the end of the window still blocks
C8_Witness ==
  /\ guardCall.op = "shouldBlockRouter"
  /\ guardCall.result
  /\ guardCall.at - guardCall.before.lastFailure = 300000

\* time does not stop: the clock of the guard keeps advancing
SpecGuardLive == SpecGuard /\ WF_vars(GuardTick)

\* the router is blacklisted: a lookup now would return true
Blacklisted(r) == ShouldBlockResult(routerBlacklist, r, now)

\* the failure times after which the model's clock still passes the window
ExpiringTimes ==
  { t \in { k * ClockStepMs : k \in 0..MaxTicks } : t + BLACKLIST_WINDOW_MS < MaxNow }

\* C38: a blacklisted router is eventually unblocked: if no further failure
\* is recorded for it, then once more than BLACKLIST_WINDOW_MS has passed
\* since its last failure the next shouldBlockRouter lookup returns false and
\* resets its failure count to zero, so that a single later failure does not
\* blacklist it again.
C38_BlacklistExpires ==
  /\ [](guardCall.op = "shouldBlockRouter"
          /\ guardCall.before.failures >= FAILURE_LIMIT
          /\ guardCall.at - guardCall.before.lastFailure > BLACKLIST_WINDOW_MS
        => /\ ~guardCall.result
           /\ routerBlacklist[guardCall.router].failures = 0)
  /\ [][\A r \in Routers :
          (routerBlacklist[r].failures = 0 /\ routerBlacklist'[r].failures # 0)
            => (routerBlacklist'[r].failures = 1
                 /\ ~ShouldBlockResult(routerBlacklist', r, now'))]_vars
  /\ \A r \in Routers : \A t \in ExpiringTimes :
        (Blacklisted(r) /\ routerBlacklist[r].lastFailure = t)
          ~> (~Blacklisted(r) \/ routerBlacklist[r].lastFailure # t)

\* a router with FAILURE_LIMIT failures is looked up after its window has
\* passed: the lookup has returned false and deleted the record
C38_Witness ==
  /\ guardCall.op = "shouldBlockRouter"
  /\ guardCall.before.failures >= FAILURE_LIMIT
  /\ guardCall.at - guardCall.before.lastFailure > BLACKLIST_WINDOW_MS
  /\ ~guardCall.result
  /\ routerBlacklist[guardCall.router] = NoRecord

----------------------------------------------------------------------------
(* SpecNonce: one SafeNonceManager over a process lifetime.  getNextNonce    *)
(* awaits the network count and then, without suspending, reconciles and   *)
(* increments; the caller sends what it was given.                          *)

InitNonce ==
  /\ now = 0
  /\ routerBlacklist = [r \in Routers |-> NoRecord]
  /\ guardCall = NoGuardCall
  /\ netLatest \in 0..1
  /\ netPending \in netLatest..(netLatest + 1)
  /\ lastKnownNonce = Null
  /\ nonceReads = <<>>
  /\ nonceCall = NoNonceCall
  /\ issued = <<>>
  /\ InitPipeIdle

\* initialize(): lastKnownNonce = getTransactionCount(address, "latest")
NonceInitialize ==
  /\ lastKnownNonce = Null
  /\ lastKnownNonce' = netLatest
  /\ UNCHANGED <<guardVars, pipeVars, utilVars, netLatest, netPending, nonceReads, nonceCall, issued>>

\* getNextNonce up to its second await: the "pending" count is read
NonceQuery ==
  /\ lastKnownNonce # Null
  /\ Len(issued) + Len(nonceReads) < MaxCalls
  /\ nonceReads' = Append(nonceReads, netPending)
  /\ UNCHANGED <<guardVars, pipeVars, utilVars, netLatest, netPending, lastKnownNonce, nonceCall, issued>>

\* getNextNonce from the await to its return, for any call in flight
NonceReturn(i) ==
  /\ i \in 1..Len(nonceReads)
  /\ LET r == GetNextNonce(lastKnownNonce, nonceReads[i])
     IN /\ lastKnownNonce' = r.cached
        /\ issued' = Append(issued, r.next)
        /\ nonceCall' = [op |-> "getNextNonce", cached |-> lastKnownNonce,
                         network |-> nonceReads[i], next |-> r.next]
  /\ nonceReads' = [j \in 1..(Len(nonceReads) - 1) |->
                      IF j < i THEN nonceReads[j] ELSE nonceReads[j + 1]]
  /\ UNCHANGED <<guardVars, pipeVars, utilVars, netLatest, netPending>>

\* the transaction carrying the next expected nonce is accepted by the node
NonceSendAccepted ==
  /\ netPending < MaxNonce
  /\ \E k \in 1..Len(issued) : issued[k] = netPending
  /\ netPending' = netPending + 1
  /\ UNCHANGED <<guardVars, pipeVars, utilVars, netLatest, lastKnownNonce, nonceReads, nonceCall, issued>>

\* a pending transaction is mined
Mine ==
  /\ netLatest < netPending
  /\ netLatest' = netLatest + 1
  /\ UNCHANGED <<guardVars, pipeVars, utilVars, netPending, lastKnownNonce, nonceReads, nonceCall, issued>>

NextNonce ==
  \/ NonceInitialize
  \/ NonceQuery
  \/ \E i \in 1..MaxCalls : NonceReturn(i)
  \/ NonceSendAccepted
  \/ Mine

SpecNonce == InitNonce /\ [][NextNonce]_vars

----------------------------------------------------------------------------
(* C3 *)

\* C3: getNextNonce called with cached value c and network pending count n
\* returns max(c, n) and leaves cached = max(c, n) + 1; and when the previous
\* call returned N and the network pending count read is N + 1 (the send
\* succeeded), the call returns N + 1, not N + 2.
C3_GetNextNonceIsMax ==
  /\ [](nonceCall.op = "getNextNonce" =>
          /\ nonceCall.cached # -1
          /\ nonceCall.next >= nonceCall.cached
          /\ nonceCall.next >= nonceCall.network
          /\ nonceCall.next \in {nonceCall.cached, nonceCall.network}
          /\ lastKnownNonce = nonceCall.next + 1)
  /\ [][(/\ Len(issued) >= 1
          /\ Len(issued') = Len(issued) + 1
          /\ nonceCall'.network = issued[Len(issued)] + 1)
         => issued'[Len(issued')] = issued[Len(issued)] + 1]_vars

\* the second call of scenario S6: the previous call returned N, that
\* transaction is pending, and this call returned N + 1
C3_Witness ==
  /\ Len(issued) = 2
  /\ nonceCall.op = "getNextNonce"
  /\ nonceCall.network = issued[1] + 1
  /\ issued[2] = issued[1] + 1
  /\ netPending = issued[1] + 1

\* C35: two getNextNonce calls on the same SafeNonceManager whose network
\* queries are in flight at the same time still return two different
\* values: whatever the order in which the calls in flight resume, the
\* values one manager returns are pairwise different, and a call that
\* resumes while another is in flight returns a value not returned before.
C35_InterleavedCallsDiffer ==
  /\ [](\A i \in 1..Len(issued) : \A j \in (i + 1)..Len(issued) : issued[i] < issued[j])
  /\ [][(Len(nonceReads) >= 2 /\ Len(issued') = Len(issued) + 1)
         => (\A k \in 1..Len(issued) : issued'[Len(issued')] # issued[k])]_vars

\* two calls have returned, the second after a query that read the very
\* count the first call returned, as both queries do when they are in
\* flight together
C35_Witness ==
  /\ Len(issued) = 2
  /\ nonceCall.op = "getNextNonce"
  /\ nonceCall.network = issued[1]
  /\ issued[2] # issued[1]

----------------------------------------------------------------------------
(* txExecutor.ts: settings and arithmetic *)

MAX_SLIPPAGE_BPS == 50
MIN_PROFIT_USD == 1
GAS_RISK_MULTIPLIER_PCT == 120   \* GAS_RISK_MULTIPLIER = 1.20
DEFAULT_GAS_LIMIT == 450000
DEFAULT_GAS_PRICE_GWEI == 3      \* 3_000_000_000n wei
WBNB_USD == 580                  \* USD_PRICE_MAP.WBNB
LOAN_AMOUNT == 50000             \* 0.05 * 1e18 wei, in micro-tokens
MICRO == 1000000

\* amountWeiToUsd, in micro-USD of an amount in micro-tokens
AmountToUsd(a) == a * WBNB_USD

\* gasLimit * gasPrice, in micro-tokens (gasPrice in gwei)
GasCost(gl, gp) == (gl * gp) \div 1000

\* BigInt(Math.floor(Number(est) * 1.25))
BufferedGas(est) == (est * 125) \div 100

\* Number(...) and the arithmetic on numbers are floating point: every
\* value is the nearest one with MantissaBits significant bits, ties to even.
\* (An IEEE double carries 53; the model's amounts are scaled down and so is
\* the mantissa.)
MantissaBits == 8

BitLen(x) == IF x = 0 THEN 0 ELSE CHOOSE k \in 1..30 : 2^(k-1) <= x /\ x < 2^k

\* the integer nearest to n/d, ties to even
RoundToEven(n, d) ==
  LET q == n \div d
      r == n % d
  IN IF 2 * r > d \/ (2 * r = d /\ q % 2 = 1) THEN q + 1 ELSE q

\* Math.floor of the floating-point number nearest to n/d
FloorOfFloat(n, d) ==
  LET k == BitLen(n \div d)
  IN IF k >= MantissaBits
     THEN RoundToEven(n, d * 2^(k - MantissaBits)) * 2^(k - MantissaBits)
     ELSE RoundToEven(n * 2^(MantissaBits - k), d) \div 2^(MantissaBits - k)

\* Number(x) for a bigint x
ToNumber(x) == FloorOfFloat(x, 1)

\* maxSlippage = SETTINGS.MAX_SLIPPAGE_BPS / 10000, as the floating-point
\* number SlippageMantissa / 2^SlippageShift
SlippageShift ==
  CHOOSE sh \in 0..20 : BitLen((MAX_SLIPPAGE_BPS * 2^sh) \div 10000) = MantissaBits
SlippageMantissa == RoundToEven(MAX_SLIPPAGE_BPS * 2^SlippageShift, 10000)

\* expectedOut - BigInt(Math.floor(Number(expectedOut) * maxSlippage))
MinOut(expectedOut) ==
  expectedOut - FloorOfFloat(ToNumber(expectedOut) * SlippageMantissa, 2^SlippageShift)

\* mutant: the gate compares the profit with the bare gas cost
BelowGasFloor_NoMultiplier(profitUsd, gasCostUsd) == profitUsd < gasCostUsd

\* profitUsd < gasCostUsd * GAS_RISK_MULTIPLIER
BelowGasFloor(profitUsd, gasCostUsd) ==
  profitUsd * 100 < gasCostUsd * GAS_RISK_MULTIPLIER_PCT

\* inputs: router sequences of the plans built, quotes, gas estimates, fee data
\* (a quote of an inner hop is an amount of another token; the quote of the
\* last hop is an amount of the loan token)
PlanRouters == { <<"rb", "ra">>, <<"ra", "ra">> }
HopQuotes == { 70000 }
Quotes == { LOAN_AMOUNT, LOAN_AMOUNT + 1000, LOAN_AMOUNT + 5400 }
QuotesAt(steps, i) == IF i < Len(steps) THEN HopQuotes ELSE Quotes
\* the re-quote of the last hop may also have drifted below half the profit
FinalQuotes == Quotes \cup { LOAN_AMOUNT + 1900 }
FinalQuotesAt(steps, i) == IF i < Len(steps) THEN HopQuotes ELSE FinalQuotes
GasEstimates == { 360000 }
FeeGasPrices == { Null, 10, 11 }

\* buildArbPlanForOpportunity: the steps of the plan
BuildSteps(routers) ==
  [i \in 1..Len(routers) |->
     [router |-> routers[i],
      amountIn |-> IF i = 1 THEN LOAN_AMOUNT ELSE 0,
      minOut |-> 1]]

\* for (const step of plan.steps) recordRouterFailure(step.router)
RECURSIVE RecordAllSteps(_, _, _, _)
RecordAllSteps(bl, steps, i, t) ==
  IF i > Len(steps) THEN bl
  ELSE RecordAllSteps(RecordRouterFailure(bl, steps[i].router, t), steps, i + 1, t)

StepsOf(steps, r) == Cardinality({i \in 1..Len(steps) : steps[i].router = r})

\* mutant: the "price moved" branch logs and counts the skip but goes on
AfterFinalSkip_FallThrough == "getNonce"

\* return null after Metrics.recordExecutionSkip("FINAL_CHECK") (price moved)
AfterFinalSkip == "returned"

\* mutant: the loop does not await the pipeline
ExecSettled_NotAwaited == TRUE

\* a loop whose try has no catch: a pipeline that throws ends the loop
ExecSettled_Uncaught == pc = "returned"

\* await executeBestOpportunity(...): the pipeline has returned or thrown
ExecSettled == pc \in {"returned", "thrown"}

\* mutant: the validation walk does not consult the blacklist
ValidationBlocks_NoLookup(bl, router, t) == FALSE

\* if (shouldBlockRouter(step.router)) in validatePlan
ValidationBlocks(bl, router, t) == ShouldBlockResult(bl, router, t)

\* mutant: a confirmed receipt resets the failure records of the plan's routers
GuardAfterSuccess_Reset(bl, steps) ==
  [r \in Routers |-> IF StepsOf(steps, r) > 0 THEN NoRecord ELSE bl[r]]

\* the guard after a confirmed receipt: the success path never touches it
GuardAfterSuccess(bl, steps) == bl

----------------------------------------------------------------------------
(* index.ts: runScanLoop *)

\* a new iteration of while (true) begins a scan
LoopWake ==
  /\ loopPc = "sleeping"
  /\ metrics.scanCount < MaxScans
  /\ loopPc' = "scanning"
  /\ UNCHANGED <<utilVars, guardVars, nonceVars, enableExecution, runVars, metrics, ghostVars>>

\* the scan, the path search or the plan builder throws: caught, then sleep
LoopScanThrows ==
  /\ loopPc = "scanning"
  /\ loopPc' = "sleeping"
  /\ UNCHANGED <<utilVars, guardVars, nonceVars, enableExecution, runVars, metrics, ghostVars>>

\* the scan ends and no execution is entered
LoopScanNoExecution ==
  /\ loopPc = "scanning"
  /\ metrics' = RecordScan(metrics)
  /\ loopPc' = "sleeping"
  /\ UNCHANGED <<utilVars, guardVars, nonceVars, enableExecution, runVars, ghostVars>>

\* the scan ends with opportunities: executeBestOpportunity builds the plan
\* and executeArbPlanTx runs up to its first quote
LoopScanExecutes(routers) ==
  /\ loopPc = "scanning"
  /\ enableExecution
  /\ metrics' = RecordExecutionAttempt(RecordScan(metrics))
  /\ loopPc' = "executing"
  /\ plan' = BuildSteps(routers)
  /\ pc' = "validate"
  /\ stepIdx' = 1
  /\ amount' = LOAN_AMOUNT
  /\ profitTokens' = 0
  /\ gasLimit' = 0
  /\ gasPrice' = 0
  /\ nextNonce' = Null
  /\ lastKnownNonce' = Null
  /\ gates' = <<>>
  /\ sent' = NoSend
  /\ quoted' = {}
  /\ outcome' = "none"
  /\ UNCHANGED <<utilVars, guardVars, netLatest, netPending, nonceReads, nonceCall, issued,
                 enableExecution, streak>>

\* the awaited pipeline has settled: Metrics.logSummary(), or the catch; sleep
LoopAfterExecution ==
  /\ loopPc = "executing"
  /\ ExecSettled
  /\ loopPc' = "sleeping"
  /\ IF pc \in {"returned", "thrown"}
     THEN /\ pc' = "idle"
          /\ plan' = <<>>
          /\ stepIdx' = 0
          /\ amount' = 0
          /\ profitTokens' = 0
          /\ gasLimit' = 0
          /\ gasPrice' = 0
          /\ nextNonce' = Null
          /\ lastKnownNonce' = Null
          /\ gates' = <<>>
          /\ sent' = NoSend
          /\ quoted' = {}
          /\ outcome' = "none"
     ELSE UNCHANGED <<runVars, lastKnownNonce, gates, sent, quoted, outcome>>
  /\ UNCHANGED <<utilVars, guardVars, netLatest, netPending, nonceReads, nonceCall, issued,
                 enableExecution, metrics, streak>>

----------------------------------------------------------------------------
(* txExecutor.ts: executeArbPlanTx, one action per await *)

\* return null after Metrics.recordExecutionSkip(reason)
Skip(reason, how) ==
  /\ metrics' = RecordExecutionSkip(metrics, reason)
  /\ outcome' = how
  /\ pc' = "returned"

\* validatePlan: the blacklist lookup that opens a step
ValidateLookup ==
  /\ pc = "validate"
  /\ LET r == plan[stepIdx].router
     IN /\ routerBlacklist' = ShouldBlockEffect(routerBlacklist, r, now)
        /\ IF ValidationBlocks(routerBlacklist, r, now)
           THEN Skip("VALIDATION", "blacklisted")
           ELSE /\ pc' = "quoting"
                /\ UNCHANGED <<metrics, outcome>>
  /\ UNCHANGED <<utilVars, now, guardCall, nonceVars, loopVars, plan, stepIdx, amount,
                 profitTokens, gasLimit, gasPrice, nextNonce, gates, sent, quoted, streak>>

\* validatePlan: getAmountsOut throws
ValidateQuoteThrows ==
  /\ pc = "quoting"
  /\ LET r == plan[stepIdx].router
     IN /\ routerBlacklist' = RecordRouterFailure(routerBlacklist, r, now)
        /\ quoted' = quoted \cup {r}
        /\ streak' = [streak EXCEPT ![r] = @ + 1]
  /\ Skip("VALIDATION", "quoteError")
  /\ UNCHANGED <<utilVars, now, guardCall, nonceVars, loopVars, plan, stepIdx, amount,
                 profitTokens, gasLimit, gasPrice, nextNonce, gates, sent>>

\* validatePlan: getAmountsOut returns; after the last step, the profit floor
ValidateQuoteReturns(expectedOut) ==
  /\ pc = "quoting"
  /\ expectedOut \in QuotesAt(plan, stepIdx)
  /\ quoted' = quoted \cup {plan[stepIdx].router}
  /\ plan' = [plan EXCEPT ![stepIdx] =
                 [router |-> @.router, amountIn |-> amount, minOut |-> MinOut(expectedOut)]]
  /\ amount' = expectedOut
  /\ IF stepIdx < Len(plan)
     THEN /\ stepIdx' = stepIdx + 1
          /\ pc' = "validate"
          /\ UNCHANGED <<metrics, outcome, profitTokens, gates>>
     ELSE /\ stepIdx' = stepIdx
          /\ IF expectedOut <= LOAN_AMOUNT
             THEN /\ Skip("VALIDATION", "unprofitable")
                  /\ UNCHANGED <<profitTokens, gates>>
             ELSE IF AmountToUsd(expectedOut - LOAN_AMOUNT) < MIN_PROFIT_USD * MICRO
             THEN /\ Skip("VALIDATION", "unprofitable")
                  /\ UNCHANGED <<profitTokens, gates>>
             ELSE /\ profitTokens' = expectedOut - LOAN_AMOUNT
                  /\ gates' = Append(gates, "validate")
                  /\ pc' = "nonceInit"
                  /\ UNCHANGED <<metrics, outcome>>
  /\ UNCHANGED <<utilVars, guardVars, nonceVars, loopVars, gasLimit, gasPrice, nextNonce, sent, streak>>

\* new SafeNonceManager(...); await nonceManager.waitReady()
RunNonceReady ==
  /\ pc = "nonceInit"
  /\ lastKnownNonce' = netLatest
  /\ pc' = "gasEstimate"
  /\ UNCHANGED <<utilVars, guardVars, netLatest, netPending, nonceReads, nonceCall, issued,
                 loopVars, plan, stepIdx, amount, profitTokens, gasLimit, gasPrice,
                 nextNonce, metrics, ghostVars>>

\* an awaited RPC outside every try block rejects: executeArbPlanTx throws
RunThrows ==
  /\ pc \in {"nonceInit", "feeData", "getNonce"}
  /\ pc' = "thrown"
  /\ outcome' = "threw"
  /\ UNCHANGED <<utilVars, guardVars, nonceVars, loopVars, plan, stepIdx, amount, profitTokens,
                 gasLimit, gasPrice, nextNonce, metrics, gates, sent, quoted, streak>>

\* estimateGas: est * 1.25, or the fallback when it throws
RunGasEstimate(est) ==
  /\ pc = "gasEstimate"
  /\ gasLimit' = IF est = Null THEN DEFAULT_GAS_LIMIT ELSE BufferedGas(est)
  /\ pc' = "feeData"
  /\ UNCHANGED <<utilVars, guardVars, nonceVars, loopVars, plan, stepIdx, amount, profitTokens,
                 gasPrice, nextNonce, metrics, ghostVars>>

\* getFeeData, then the gas gate
RunGasGate(feeGasPrice) ==
  /\ pc = "feeData"
  /\ LET gp == IF feeGasPrice = Null THEN DEFAULT_GAS_PRICE_GWEI ELSE feeGasPrice
         gasCostUsd == AmountToUsd(GasCost(gasLimit, gp))
     IN /\ gasPrice' = gp
        /\ IF BelowGasFloor(AmountToUsd(profitTokens), gasCostUsd)
           THEN /\ Skip("GAS", "gas")
                /\ UNCHANGED <<gates, stepIdx, amount>>
           ELSE /\ gates' = Append(gates, "gas")
                /\ pc' = "finalCheck"
                /\ stepIdx' = 1
                /\ amount' = LOAN_AMOUNT
                /\ UNCHANGED <<metrics, outcome>>
  /\ UNCHANGED <<utilVars, guardVars, nonceVars, loopVars, plan, profitTokens, gasLimit,
                 nextNonce, sent, quoted, streak>>

\* finalCheck: getAmountsOut throws
FinalQuoteThrows ==
  /\ pc = "finalCheck"
  /\ LET r == plan[stepIdx].router
     IN /\ routerBlacklist' = RecordRouterFailure(routerBlacklist, r, now)
        /\ streak' = [streak EXCEPT ![r] = @ + 1]
  /\ Skip("FINAL_CHECK", "finalQuoteError")
  /\ UNCHANGED <<utilVars, now, guardCall, nonceVars, loopVars, plan, stepIdx, amount,
                 profitTokens, gasLimit, gasPrice, nextNonce, gates, sent, quoted>>

\* a variant of finalCheck that writes the fresh quote's floor into the step
FinalCheckSteps_Requoted(steps, i, out) ==
  [steps EXCEPT ![i] = [router |-> @.router, amountIn |-> @.amountIn, minOut |-> MinOut(out)]]

\* finalCheck reads step.router and step.path and assigns to no field of a step
FinalCheckSteps(steps, i, out) == steps

\* finalCheck: getAmountsOut returns; after the last step, the gates of C)
FinalQuoteReturns(out) ==
  /\ pc = "finalCheck"
  /\ out \in FinalQuotesAt(plan, stepIdx)
  /\ amount' = out
  /\ plan' = FinalCheckSteps(plan, stepIdx, out)
  /\ IF stepIdx < Len(plan)
     THEN /\ stepIdx' = stepIdx + 1
          /\ UNCHANGED <<pc, metrics, outcome, gates>>
     ELSE /\ stepIdx' = stepIdx
          /\ LET gasCostUsd == AmountToUsd(GasCost(gasLimit, gasPrice))
                 finalUsd == AmountToUsd(out - LOAN_AMOUNT)
             IN IF out <= LOAN_AMOUNT
                THEN /\ Skip("FINAL_CHECK", "finalUnprofitable")
                     /\ UNCHANGED gates
                ELSE IF BelowGasFloor(finalUsd, gasCostUsd)
                THEN /\ metrics' = RecordExecutionSkip(metrics, "FINAL_CHECK")
                     /\ outcome' = "priceMoved"
                     /\ pc' = AfterFinalSkip
                     /\ UNCHANGED gates
                ELSE IF finalUsd - gasCostUsd <= 0
                THEN /\ Skip("GAS", "netNotPositive")
                     /\ UNCHANGED gates
                ELSE /\ gates' = Append(gates, "final")
                     /\ pc' = "getNonce"
                     /\ UNCHANGED <<metrics, outcome>>
  /\ UNCHANGED <<utilVars, guardVars, nonceVars, loopVars, profitTokens, gasLimit,
                 gasPrice, nextNonce, sent, quoted, streak>>

\* const nextNonce = await nonceManager.getNextNonce()
RunGetNonce ==
  /\ pc = "getNonce"
  /\ LET r == GetNextNonce(lastKnownNonce, netPending)
     IN /\ nextNonce' = r.next
        /\ lastKnownNonce' = r.cached
        /\ issued' = Append(issued, r.next)
        /\ nonceCall' = [op |-> "getNextNonce", cached |-> lastKnownNonce,
                         network |-> netPending, next |-> r.next]
  /\ pc' = "send"
  /\ UNCHANGED <<utilVars, guardVars, netLatest, netPending, nonceReads, loopVars, plan, stepIdx,
                 amount, profitTokens, gasLimit, gasPrice, metrics, ghostVars>>

\* the catch block: classify, count the failure, one router failure per step
Caught(msg) ==
  /\ metrics' = RecordExecutionFailure(metrics, ClassifyError(msg))
  /\ routerBlacklist' = RecordAllSteps(routerBlacklist, plan, 1, now)
  /\ streak' = [r \in Routers |-> streak[r] + StepsOf(plan, r)]
  /\ outcome' = "execError"
  /\ pc' = "returned"

\* contract.executeArb(...) is called and rejects
RunSendThrows(msg) ==
  /\ pc = "send"
  /\ sent' = [done |-> TRUE, gates |-> gates, nonce |-> nextNonce, status |-> Null]
  /\ Caught(msg)
  /\ UNCHANGED <<utilVars, now, guardCall, nonceVars, loopVars, plan, stepIdx, amount,
                 profitTokens, gasLimit, gasPrice, nextNonce, gates, quoted>>

\* contract.executeArb(...) is called and the node accepts the transaction
RunSendAccepted ==
  /\ pc = "send"
  /\ sent' = [done |-> TRUE, gates |-> gates, nonce |-> nextNonce, status |-> Null]
  /\ netPending' = IF nextNonce = netPending THEN netPending + 1 ELSE netPending
  /\ pc' = "wait"
  /\ UNCHANGED <<utilVars, guardVars, netLatest, lastKnownNonce, nonceReads, nonceCall, issued,
                 loopVars, plan, stepIdx, amount, profitTokens, gasLimit, gasPrice,
                 nextNonce, metrics, gates, quoted, outcome, streak>>

\* tx.wait() returns the receipt of the mined transaction.  (wait() of
\* ethers resolves only with a receipt of status 1; for a receipt of status
\* 0 it rejects with CALL_EXCEPTION, "transaction execution reverted".)
RunWaitReturns ==
  /\ pc = "wait"
  /\ sent' = [sent EXCEPT !.status = 1]
  /\ netLatest' = netPending
  /\ metrics' = RecordExecutionSuccess(metrics,
         AmountToUsd(amount - LOAN_AMOUNT) - AmountToUsd(GasCost(gasLimit, gasPrice)))
  /\ routerBlacklist' = GuardAfterSuccess(routerBlacklist, plan)
  /\ streak' = [r \in Routers |-> IF StepsOf(plan, r) > 0 THEN 0 ELSE streak[r]]
  /\ outcome' = "receipt"
  /\ pc' = "returned"
  /\ UNCHANGED <<utilVars, now, guardCall, netPending, lastKnownNonce, nonceReads, nonceCall,
                 issued, loopVars, plan, stepIdx, amount, profitTokens, gasLimit,
                 gasPrice, nextNonce, gates, quoted>>

\* tx.wait() throws: the transaction was mined and reverted (a receipt of
\* status 0), or it was replaced or dropped (no receipt)
RunWaitThrows(msg) ==
  /\ pc = "wait"
  /\ sent' = [sent EXCEPT !.status = IF "execution reverted" \in msg THEN 0 ELSE Null]
  /\ netLatest' = netPending
  /\ Caught(msg)
  /\ UNCHANGED <<utilVars, now, guardCall, netPending, lastKnownNonce, nonceReads, nonceCall,
                 issued, loopVars, plan, stepIdx, amount, profitTokens, gasLimit,
                 gasPrice, nextNonce, gates, quoted>>

\* Time passes.  Only the guard reads the clock (the lookup that opens a
\* validation step, and every recorded failure), so it is enough to let time
\* pass during the sleep and during a validation quote: time passing at any
\* other await is observed exactly as if it had passed at the latest of these.
PipeTick ==
  /\ loopPc = "sleeping" \/ pc = "quoting"
  /\ Tick
  /\ UNCHANGED <<routerBlacklist, guardCall, nonceVars, pipeVars, utilVars>>

Init ==
  /\ now = 0
  /\ routerBlacklist = [r \in Routers |-> NoRecord]
  /\ guardCall = NoGuardCall
  /\ netLatest = 0
  /\ netPending = 0
  /\ lastKnownNonce = Null
  /\ nonceReads = <<>>
  /\ nonceCall = NoNonceCall
  /\ issued = <<>>
  /\ loopPc = "sleeping"
  /\ enableExecution \in BOOLEAN
  /\ InitRpcIdle
  /\ InitScanIdle
  /\ InitFnIdle
  /\ metrics = InitialMetrics
  /\ streak = [r \in Routers |-> 0]
  /\ InitRun

Next ==
  \/ LoopWake
  \/ LoopScanThrows
  \/ LoopScanNoExecution
  \/ \E routers \in PlanRouters : LoopScanExecutes(routers)
  \/ LoopAfterExecution
  \/ ValidateLookup
  \/ ValidateQuoteThrows
  \/ \E q \in HopQuotes \cup Quotes : ValidateQuoteReturns(q)
  \/ RunNonceReady
  \/ RunThrows
  \/ \E est \in GasEstimates \cup {Null} : RunGasEstimate(est)
  \/ \E gp \in FeeGasPrices : RunGasGate(gp)
  \/ FinalQuoteThrows
  \/ \E q \in HopQuotes \cup FinalQuotes : FinalQuoteReturns(q)
  \/ RunGetNonce
  \/ \E msg \in ErrorMessages : RunSendThrows(msg)
  \/ RunSendAccepted
  \/ RunWaitReturns
  \/ \E msg \in ErrorMessages : RunWaitThrows(msg)
  \/ PipeTick

Spec == Init /\ [][Next]_vars

----------------------------------------------------------------------------
(* C1 *)

\* C1: executeArb is called only after the validation gate, then the gas
\* gate, then the final-check gate have each passed, in that order, in the
\* same run.
C1_GatesBeforeSend ==
  sent.done => sent.gates = <<"validate", "gas", "final">>

\* a transaction has been submitted and is awaited
C1_Witness == sent.done /\ pc = "wait"

----------------------------------------------------------------------------
(* C2 *)

\* C2: over one process lifetime no two getNextNonce calls made by the
\* pipeline return the same value, whatever the outcome of the submissions.
C2_NoncesNeverRepeat ==
  \A i, j \in 1..Len(issued) : i # j => issued[i] # issued[j]

----------------------------------------------------------------------------
(* C4 *)

\* C4: while a submitted transaction is awaited (tx.wait() has neither
\* returned nor thrown) the scan loop is inside that execution: it starts no
\* further scan and no further execution.
C4_NoScanWhileTxUnconfirmed ==
  pc = "wait" => loopPc = "executing"

\* a transaction of a later cycle is awaited
C4_Witness == pc = "wait" /\ metrics.scanCount >= 2 /\ loopPc = "executing"

----------------------------------------------------------------------------
(* C9 *)

BlacklistedAt(bl, r, t) ==
  bl[r].failures >= 3 /\ t - bl[r].lastFailure <= 300000

\* C9 (as stated in the specification): a router is blacklisted only when
\* three consecutive failures of it, not separated by a successful use, have
\* been recorded.
C9_OnlyConsecutiveFailuresBlacklist ==
  \A r \in Routers : BlacklistedAt(routerBlacklist, r, now) => streak[r] >= 3

\* C9 (amended): a router is blacklisted exactly while its record holds at
\* least 3 failures and the latest of them is at most 5 minutes old.  It
\* becomes blacklisted only at a step that records a failure for it; it
\* stops being blacklisted only by time passing beyond 5 minutes after its
\* latest failure; and its failure count is never reduced except by being
\* cleared more than 5 minutes after the latest failure, so successful uses
\* of the router do not reset the count.
C9_Blacklisting ==
  /\ [][\A r \in Routers :
          (~BlacklistedAt(routerBlacklist, r, now)
             /\ BlacklistedAt(routerBlacklist', r, now'))
          => /\ routerBlacklist'[r].failures > routerBlacklist[r].failures
             /\ routerBlacklist'[r].lastFailure = now]_vars
  /\ [][\A r \in Routers :
          (BlacklistedAt(routerBlacklist, r, now)
             /\ ~BlacklistedAt(routerBlacklist', r, now'))
          => now' - routerBlacklist[r].lastFailure > 300000]_vars
  /\ [][\A r \in Routers :
          routerBlacklist'[r].failures < routerBlacklist[r].failures
          => /\ routerBlacklist'[r].failures = 0
             /\ now - routerBlacklist[r].lastFailure > 300000]_vars

\* a router is blacklisted although a successful use separates its failures
C9_Witness ==
  \E r \in Routers :
    /\ BlacklistedAt(routerBlacklist, r, now)
    /\ streak[r] < 3
    /\ metrics.executionsSucceeded >= 1

----------------------------------------------------------------------------
(* C10 *)

\* C10: when the router of the step the validation walk is at is blacklisted
\* (3 recorded failures, the last within the window), the walk does not call
\* getAmountsOut on it, the pipeline returns null, skippedValidation grows
\* by exactly 1 and no transaction is sent.
C10_BlacklistedRouterSkipsValidation ==
  /\ [][(/\ pc = "validate"
          /\ routerBlacklist[plan[stepIdx].router].failures >= 3
          /\ now - routerBlacklist[plan[stepIdx].router].lastFailure <= 300000)
         => /\ pc' = "returned"
            /\ outcome' = "blacklisted"
            /\ quoted' = quoted
            /\ metrics' = [metrics EXCEPT !.skippedValidation = @ + 1]
            /\ sent' = sent]_vars
  /\ [](outcome = "blacklisted" =>
          /\ plan[stepIdx].router \notin quoted
          /\ ~sent.done
          /\ pc \in {"returned", "idle"})

\* the second step's router is blacklisted after the first step was quoted
C10_Witness ==
  /\ outcome = "blacklisted"
  /\ stepIdx = 2
  /\ quoted = {"rb"}
  /\ metrics.skippedValidation >= 1


\* ---------------------------------------------------------------------------
\* batchRpc (src/utils/batchRpc.ts), in its two versions.  Call k of the input
\* list (1-based here, index k-1 in the code) returns the data ResultOf(k).
\* ---------------------------------------------------------------------------

MaxRpcCalls == 3
MaxBatchSize == 2
MAX_RETRIES == 5

EmptyHex == 0                      \* the string "0x"
ResultOf(k) == k                   \* the hex data eth_call returns for calls[k]

Min(a, b) == IF a < b THEN a ELSE b

\* calls.slice(i, i + batchSize).length
BatchLen(off, bs, n) == Min(bs, n - off)

\* The offsets of the batches the input list is split into.
BatchOffsets(bs, n) == { off \in 0..n : off < n /\ off % bs = 0 }

\* What provider.send("rpc.batch", payload) can resolve to: an array of up to
\* one item more than the batch holds, each item the reply to one request of
\* the batch (in any order, repeated or missing) or an error item.
BatchResponses(off, len) ==
  UNION { [1..m -> (off + 1)..(off + len) \cup {Null}] : m \in 0..(len + 1) }

\* results after the loop over response has written `upto` items.
WriteResponse(results, off, response, upto) ==
  [k \in DOMAIN results |->
     IF k > off /\ k - off <= upto
     THEN IF response[k - off] = Null THEN Null ELSE ResultOf(response[k - off])
     ELSE results[k]]

\* The batch processed after one that ended on a non-rate-limit error.
AfterBatchError_AbortAll(off, bs, n) == n
AfterBatchError(off, bs, n) == off + bs

\* batchRpc called with a list of rpcCalls calls and batch size rpcBatchSize;
\* lines 22 (native: results prefilled with null) and 20 (chunked: empty).
InitBatch ==
  /\ InitSignerIdle
  /\ InitEngineIdle
  /\ InitScanIdle
  /\ InitFnIdle
  /\ rpcMode \in {"native", "chunked"}
  /\ rpcCalls \in 0..MaxRpcCalls
  /\ rpcBatchSize \in 1..MaxBatchSize
  /\ rpcOffset = 0
  /\ rpcAttempt = 0
  /\ rpcResults = IF rpcMode = "native" THEN [k \in 1..rpcCalls |-> Null] ELSE <<>>
  /\ rpcPc = "running"
  /\ rpcLog = <<>>
  /\ rpcFailed = {}

RpcUnchanged == UNCHANGED <<guardVars, nonceVars, pipeVars, scanCalls, fnVars,
                            rpcMode, rpcCalls, rpcBatchSize>>

InBatch(mode) ==
  /\ rpcMode = mode
  /\ rpcPc = "running"
  /\ rpcOffset < rpcCalls

\* native: provider.send resolves.  The loop over response writes the slot
\* of batch[i] for item i; an item past the end of the batch makes batch[i]
\* undefined and the read of .index throws a TypeError, which the catch
\* treats as a non-rate-limit error.
NativeSendReturns(response) ==
  /\ InBatch("native")
  /\ LET len == BatchLen(rpcOffset, rpcBatchSize, rpcCalls)
         fits == Len(response) <= len
     IN /\ rpcResults' = WriteResponse(rpcResults, rpcOffset, response,
                                        Min(Len(response), len))
        /\ rpcLog' = Append(rpcLog, [offset |-> rpcOffset,
                                      end |-> IF fits THEN "ok" ELSE "typeError"])
        /\ rpcOffset' = IF fits THEN rpcOffset + rpcBatchSize
                        ELSE AfterBatchError(rpcOffset, rpcBatchSize, rpcCalls)
  /\ rpcAttempt' = 0
  /\ UNCHANGED <<rpcPc, rpcFailed>>
  /\ RpcUnchanged

\* mutant: one more retry than MAX_RETRIES allows
RetryAllowed_OneMore(isRateLimit, attempt) == isRateLimit /\ attempt <= MAX_RETRIES

\* the retry loop goes round again: the error was a rate limit (no break) and
\* the loop condition attempt < MAX_RETRIES holds
RetryAllowed(isRateLimit, attempt) == isRateLimit /\ attempt < MAX_RETRIES

\* native: provider.send rejects.  attempt++; a rate-limit error sleeps and
\* retries while attempt < MAX_RETRIES, any other error breaks out of the
\* retry loop; either way the for loop goes on with the next batch.
NativeSendThrows(isRateLimit) ==
  /\ InBatch("native")
  /\ LET attempt == rpcAttempt + 1
         retry == RetryAllowed(isRateLimit, attempt)
     IN /\ rpcAttempt' = IF retry THEN attempt ELSE 0
        /\ rpcOffset' = IF retry THEN rpcOffset
                        ELSE IF isRateLimit THEN rpcOffset + rpcBatchSize
                        ELSE AfterBatchError(rpcOffset, rpcBatchSize, rpcCalls)
        /\ rpcLog' = IF retry THEN rpcLog
                     ELSE Append(rpcLog, [offset |-> rpcOffset,
                                          end |-> IF isRateLimit THEN "exhausted"
                                                  ELSE "error"])
  /\ UNCHANGED <<rpcResults, rpcPc, rpcFailed>>
  /\ RpcUnchanged

\* chunked: Promise.allSettled over the chunk; the calls in `failed` throw
\* and their wrapper returns "0x", the others return their data.
ChunkSettles(failed) ==
  /\ InBatch("chunked")
  /\ LET len == BatchLen(rpcOffset, rpcBatchSize, rpcCalls)
     IN /\ failed \subseteq (rpcOffset + 1)..(rpcOffset + len)
        /\ rpcResults' = rpcResults \o
             [i \in 1..len |-> IF rpcOffset + i \in failed THEN EmptyHex
                               ELSE ResultOf(rpcOffset + i)]
        /\ rpcLog' = Append(rpcLog, [offset |-> rpcOffset, end |-> "ok"])
  /\ rpcFailed' = rpcFailed \cup failed
  /\ rpcOffset' = rpcOffset + rpcBatchSize
  /\ UNCHANGED <<rpcAttempt, rpcPc>>
  /\ RpcUnchanged

\* return results
BatchReturn ==
  /\ rpcPc = "running"
  /\ rpcOffset >= rpcCalls
  /\ rpcPc' = "done"
  /\ UNCHANGED <<rpcOffset, rpcAttempt, rpcResults, rpcLog, rpcFailed>>
  /\ RpcUnchanged

NextBatch ==
  \/ \E response \in BatchResponses(rpcOffset,
                       BatchLen(rpcOffset, rpcBatchSize, rpcCalls)) :
       NativeSendReturns(response)
  \/ \E isRateLimit \in BOOLEAN : NativeSendThrows(isRateLimit)
  \/ \E failed \in SUBSET (1..rpcCalls) : ChunkSettles(failed)
  \/ BatchReturn

SpecBatch == InitBatch /\ [][NextBatch]_vars

\* batchRpc is one async function: once called it runs on, every await of
\* provider.send settling one way or the other
SpecBatchLive == SpecBatch /\ WF_vars(NextBatch)

----------------------------------------------------------------------------
(* Claims checked against SpecBatch *)

\* C6: batchRpc returns exactly calls.length entries and entry i is either
\* the result of calls[i] or the failure marker (null, or "0x" in the
\* chunked version); a result is never placed in another call's slot.
C6_ResultsMatchCalls ==
  rpcPc = "done" =>
    /\ Len(rpcResults) = rpcCalls
    /\ \A k \in 1..Len(rpcResults) : rpcResults[k] \in {Null, EmptyHex, ResultOf(k)}

\* C7: a batch whose send ended on a non-rate-limit error has all its slots
\* None and every batch of the input is dispatched; in the chunked version a
\* failing eth_call has None in its own slot and every other call of the
\* chunk has its own result.
C7_FailureIsolatedAsNone ==
  /\ \A i \in 1..Len(rpcLog) :
       rpcLog[i].end = "error" =>
         \A k \in (rpcLog[i].offset + 1)..
                   (rpcLog[i].offset + BatchLen(rpcLog[i].offset, rpcBatchSize, rpcCalls)) :
           rpcResults[k] = Null
  /\ rpcPc = "done" =>
       \A off \in BatchOffsets(rpcBatchSize, rpcCalls) :
         \E i \in 1..Len(rpcLog) : rpcLog[i].offset = off
  /\ rpcMode = "chunked" =>
       \A k \in 1..Len(rpcResults) :
         rpcResults[k] = IF k \in rpcFailed THEN Null ELSE ResultOf(k)

\* a step in which the retry loop of a batch gives up after rate-limit errors
ExhaustedStep ==
  /\ rpcLog' # rpcLog
  /\ rpcLog'[Len(rpcLog')].end = "exhausted"

\* C26: batchRpc always terminates: a batch is sent to the provider at most
\* MAX_RETRIES times, also when every attempt is answered with a rate-limit
\* error, after which the slots of the batch stay None and the next batch is
\* processed.
C26_BatchRetriesBounded ==
  /\ [][rpcAttempt' < MAX_RETRIES]_vars
  /\ [][ExhaustedStep =>
          /\ rpcAttempt = MAX_RETRIES - 1
          /\ \A k \in (rpcOffset + 1)..
                       (rpcOffset + BatchLen(rpcOffset, rpcBatchSize, rpcCalls)) :
               rpcResults'[k] = Null
          /\ rpcOffset' = rpcOffset + rpcBatchSize]_vars
  /\ <>(rpcPc = "done")

\* a batch was given up after MAX_RETRIES rate-limit errors and a later one
\* was answered
C26_Witness ==
  /\ rpcPc = "done"
  /\ \E i, j \in 1..Len(rpcLog) :
       /\ i < j
       /\ rpcLog[i].end = "exhausted"
       /\ rpcLog[j].end = "ok"
       /\ rpcResults[rpcLog[j].offset + 1] = ResultOf(rpcLog[j].offset + 1)

----------------------------------------------------------------------------
(* Claims about the gates of executeArbPlanTx, checked against Spec *)

\* profitUsd of the final check of the run that is past its final quote
FinalProfitUsd == AmountToUsd(amount - LOAN_AMOUNT)

\* profitUsd found by validatePlan in the current run
ValidatedProfitUsd == AmountToUsd(profitTokens)

\* C11: a transaction is submitted only if the profit re-quoted by the final
\* check is at least 0.5 times the profit found by validation.
C11_FinalCheckRetainsHalf ==
  sent.done => 2 * FinalProfitUsd >= ValidatedProfitUsd

\* the step in which getFeeData has returned and the gas gate is decided
GasGateStep == pc = "feeData" /\ pc' \notin {"feeData", "thrown"}

SubmissionErrorStep ==
  /\ pc \in {"getNonce", "send", "wait"}
  /\ outcome' \in {"threw", "execError"}

\* C14: an error raised during submission is absorbed: the run returns
\* (null) instead of throwing, executionsFailed grows by 1 and every router
\* gets one failure per step of the plan that uses it.
C14_SubmissionErrorsAbsorbed ==
  [][SubmissionErrorStep =>
       /\ pc' = "returned"
       /\ metrics'.executionsFailed = metrics.executionsFailed + 1
       /\ \A r \in Routers :
            routerBlacklist'[r].failures =
              routerBlacklist[r].failures + StepsOf(plan, r)]_vars

\* the step in which the wait for the receipt ends
WaitEndsStep == pc = "wait" /\ pc' # "wait"

MAX_GAS_PRICE_GWEI == 8

\* C27: the gas price attached to a submitted transaction is
\* min(feeData.gasPrice, or 3 gwei when absent, MAX_GAS_PRICE_GWEI): no
\* transaction is submitted with a gas price above MAX_GAS_PRICE_GWEI.
C27_GasPriceCapped ==
  sent.done => gasPrice <= MAX_GAS_PRICE_GWEI

\* the positions of a run between the end of validation and the send
AfterValidation == {"nonceInit", "gasEstimate", "feeData", "finalCheck", "getNonce", "send"}

\* C28: the final check leaves the plan unchanged: from the end of validation
\* to the submission no step of the run changes the amountIn or the minOut of
\* a step or any other field of the plan, so the plan that is submitted is
\* the validated plan.
C28_FinalCheckKeepsPlan ==
  [][(pc \in AfterValidation /\ pc' # "idle") => (plan' = plan)]_vars

\* a plan of several steps has passed the final check and is at the send
C28_Witness ==
  /\ pc = "send"
  /\ Len(plan) > 1
  /\ gates = <<"validate", "gas", "final">>

\* every await of the loop and of the pipeline settles, and the sleep ends
SpecLoopLive == Spec /\ WF_vars(Next)

\* C39: the scan loop never stops because of an error: an exception raised
\* by the scan, the opportunity search or the execution pipeline in one
\* cycle is caught inside that cycle, every cycle ends in the sleep, and the
\* next cycle starts after the sleep (as long as the model's budget of
\* scans lasts).
C39_LoopSurvivesErrors ==
  /\ [](loopPc # "sleeping" => <>(loopPc = "sleeping"))
  /\ [](pc = "thrown" => <>(pc = "idle" /\ loopPc = "sleeping"))
  /\ []((loopPc = "sleeping" /\ metrics.scanCount < MaxScans) => <>(loopPc = "scanning"))

\* a scan is under way after a cycle whose pipeline threw
C39_Witness ==
  /\ loopPc = "scanning"
  /\ pc = "idle"
  /\ metrics.executionsAttempted > metrics.executionsSucceeded + metrics.executionsFailed
        + metrics.skippedValidation + metrics.skippedGas + metrics.skippedFinalCheck

\* the outcome counters of the metrics, summed
OutcomesCounted(m) ==
  m.executionsSucceeded + m.executionsFailed
    + m.skippedValidation + m.skippedGas + m.skippedFinalCheck

\* C36: after any sequence of pipeline runs, whether each run returns or
\* throws, executionsAttempted = executionsSucceeded + executionsFailed +
\* skippedValidation + skippedGas + skippedFinalCheck: each run increments
\* exactly one outcome counter.
C36_AttemptsAreOutcomes ==
  pc \in {"idle", "returned", "thrown"} =>
    metrics.executionsAttempted = OutcomesCounted(metrics)

\* C29: executionsAttempted is incremented only at submission: it changes
\* only in the step that issues executeArb, and a run skipped at validation,
\* at the gas gate or at the final check leaves it as it was.
C29_AttemptedOnlyAtSubmission ==
  [][(metrics'.executionsAttempted # metrics.executionsAttempted)
       => (pc = "send" /\ sent'.done)]_vars

----------------------------------------------------------------------------
(* validatePlan's slippage floor as a function of the quote *)

MinQuote == 102400
MaxQuoteSpan == 600

FnUnchanged == UNCHANGED <<guardVars, nonceVars, pipeVars, rpcVars, scanCalls>>

\* a validation quote expectedOut is about to get its minOut
InitSlippage ==
  /\ InitSignerIdle
  /\ InitEngineIdle
  /\ InitRpcIdle
  /\ InitScanIdle
  /\ fnArgs \in {<<q>> : q \in MinQuote..(MinQuote + MaxQuoteSpan)}
  /\ fnResult = <<>>
  /\ fnPc = "called"

\* step.minOut = minOut.toString()
SlippageApply ==
  /\ fnPc = "called"
  /\ fnResult' = <<MinOut(fnArgs[1])>>
  /\ fnPc' = "returned"
  /\ UNCHANGED fnArgs
  /\ FnUnchanged

NextSlippage == SlippageApply

SpecSlippage == InitSlippage /\ [][NextSlippage]_vars

\* C13: min_out <= expected_out, and expected_out - min_out is at most
\* floor(expected_out x MAX_SLIPPAGE_BPS / 10000) + 1.
C13_MinOutWithinSlippage ==
  fnPc = "returned" =>
    LET expectedOut == fnArgs[1]
        minOut == fnResult[1]
    IN /\ minOut <= expectedOut
       /\ expectedOut - minOut <= (expectedOut * MAX_SLIPPAGE_BPS) \div 10000 + 1

----------------------------------------------------------------------------
(* executeBestOpportunity: the selection that precedes the pipeline, in the  *)
(* version with the spread gate ("spread") and in the version whose          *)
(* executeArbPlanTx has the three gates ("gated").  profitPct is in          *)
(* hundredths of a percent.                                                  *)

MaxOpps == 2
MIN_EXEC_SPREAD_PCT == 20          \* 0.2 (percent)

SpreadValues ==
  {0, MIN_EXEC_SPREAD_PCT - 1, MIN_EXEC_SPREAD_PCT, MIN_EXEC_SPREAD_PCT + 1}

OppLists == UNION { [1..n -> SpreadValues] : n \in 0..MaxOpps }

NoPlan == [planBuilt |-> FALSE, profitPct |-> Null]

\* the version with selectBestOpportunity and the MIN_EXEC_SPREAD_PCT gate
ExecuteBestWithSpreadGate(opps, credentials) ==
  IF Len(opps) = 0 THEN NoPlan
  ELSE IF ~credentials THEN NoPlan
  ELSE IF opps[1] < MIN_EXEC_SPREAD_PCT THEN NoPlan
  ELSE [planBuilt |-> TRUE, profitPct |-> opps[1]]

\* the version that hands the plan to the gated executeArbPlanTx
ExecuteBestGated(opps) ==
  IF Len(opps) = 0 THEN NoPlan
  ELSE [planBuilt |-> TRUE, profitPct |-> opps[1]]

InitBest ==
  /\ InitSignerIdle
  /\ InitEngineIdle
  /\ InitRpcIdle
  /\ InitScanIdle
  /\ fnArgs \in [version : {"spread", "gated"}, opps : OppLists,
                  credentials : BOOLEAN]
  /\ fnResult = NoPlan
  /\ fnPc = "called"

\* executeBestOpportunity up to the point where the plan exists
BestSelect ==
  /\ fnPc = "called"
  /\ fnResult' = IF fnArgs.version = "spread"
                 THEN ExecuteBestWithSpreadGate(fnArgs.opps, fnArgs.credentials)
                 ELSE ExecuteBestGated(fnArgs.opps)
  /\ fnPc' = "returned"
  /\ UNCHANGED fnArgs
  /\ FnUnchanged

NextBest == BestSelect

SpecBest == InitBest /\ [][NextBest]_vars

\* C16: no plan is built (so no router is quoted and nothing is sent) when
\* the opportunity list is empty or opps[0].profitPct is below
\* MIN_EXEC_SPREAD_PCT.
C16_NoPlanBelowSpread ==
  fnPc = "returned" =>
    ((Len(fnArgs.opps) = 0 \/ fnArgs.opps[1] < MIN_EXEC_SPREAD_PCT)
       => ~fnResult.planBuilt)

----------------------------------------------------------------------------
(* The constant-product swap formula, in its two versions *)

MaxAmountIn == 4
MaxReserve == 6
DeepReserve == 40000

\* reserves: every small one, and one far larger than any amount swapped
Reserves == 0..MaxReserve \cup {DeepReserve}

\* opportunityFinder.ts: 0.25% fee, the fee taken by an integer division first
ComputeAmountOut(amountIn, reserveIn, reserveOut) ==
  IF amountIn <= 0 \/ reserveIn <= 0 \/ reserveOut <= 0 THEN 0
  ELSE LET amountInWithFee == (amountIn * 9975) \div 10000
           numerator == amountInWithFee * reserveOut
           denominator == reserveIn + amountInWithFee
       IN numerator \div denominator

\* a quote at the spot price: the amount swapped does not move the price
SimulateSwap_SpotPrice(amountIn, reserveIn, reserveOut) ==
  IF amountIn <= 0 \/ reserveIn <= 0 \/ reserveOut <= 0 THEN 0
  ELSE (amountIn * 997 * reserveOut) \div (reserveIn * 1000)

\* pathFinder: 0.3% fee, scaled by 1000
SimulateSwap(amountIn, reserveIn, reserveOut) ==
  IF amountIn <= 0 \/ reserveIn <= 0 \/ reserveOut <= 0 THEN 0
  ELSE LET amountInWithFee == amountIn * 997
           numerator == amountInWithFee * reserveOut
           denominator == reserveIn * 1000 + amountInWithFee
       IN numerator \div denominator

InitSwap ==
  /\ InitSignerIdle
  /\ InitEngineIdle
  /\ InitRpcIdle
  /\ InitScanIdle
  /\ fnArgs \in [fn : {"computeAmountOut", "simulateSwap"},
                  amountIn : 0..MaxAmountIn,
                  reserveIn : Reserves,
                  reserveOut : Reserves]
  /\ fnResult = 0
  /\ fnPc = "called"

SwapApply ==
  /\ fnPc = "called"
  /\ fnResult' = IF fnArgs.fn = "computeAmountOut"
                 THEN ComputeAmountOut(fnArgs.amountIn, fnArgs.reserveIn, fnArgs.reserveOut)
                 ELSE SimulateSwap(fnArgs.amountIn, fnArgs.reserveIn, fnArgs.reserveOut)
  /\ fnPc' = "returned"
  /\ UNCHANGED fnArgs
  /\ FnUnchanged

NextSwap == SwapApply

SpecSwap == InitSwap /\ [][NextSwap]_vars

\* C17: the swap output is 0 when amount_in, reserve_in or reserve_out is
\* zero, and otherwise exactly
\* floor(amount_in x 9975 x reserve_out / (reserve_in x 10000 + amount_in x 9975)).
C17_ExactSwapFormula ==
  fnPc = "returned" =>
    fnResult =
      IF fnArgs.amountIn = 0 \/ fnArgs.reserveIn = 0 \/ fnArgs.reserveOut = 0
      THEN 0
      ELSE (fnArgs.amountIn * 9975 * fnArgs.reserveOut)
             \div (fnArgs.reserveIn * 10000 + fnArgs.amountIn * 9975)

----------------------------------------------------------------------------
(* pathOptimizer.ts: the token graph, the depth-limited DFS and the          *)
(* triangular search.  A pool is [tokenA, tokenB, dexes], a dex (leg) is     *)
(* [name, reserveA, reserveB]; the graph is the list of its edges in         *)
(* insertion order, which gives every adjacency list in insertion order.     *)

InSeq(x, seq) == \E i \in 1..Len(seq) : seq[i] = x

RECURSIVE Flatten(_)
Flatten(seqs) == IF Len(seqs) = 0 THEN <<>> ELSE Head(seqs) \o Flatten(Tail(seqs))

\* a graph builder that adds the edge A -> B alone
EdgesOfDex_OneWay(pool, dex) ==
  << [tokenIn |-> pool.tokenA, tokenOut |-> pool.tokenB, dexName |-> dex.name,
      reserveIn |-> dex.reserveA, reserveOut |-> dex.reserveB] >>

\* the two addEdge calls of one dex of a pool: A -> B, then B -> A
EdgesOfDex(pool, dex) ==
  << [tokenIn |-> pool.tokenA, tokenOut |-> pool.tokenB, dexName |-> dex.name,
      reserveIn |-> dex.reserveA, reserveOut |-> dex.reserveB],
     [tokenIn |-> pool.tokenB, tokenOut |-> pool.tokenA, dexName |-> dex.name,
      reserveIn |-> dex.reserveB, reserveOut |-> dex.reserveA] >>

BuildTokenGraph(pools) ==
  Flatten([p \in 1..Len(pools) |->
             Flatten([d \in 1..Len(pools[p].dexes) |->
                        EdgesOfDex(pools[p], pools[p].dexes[d])])])

\* graph.get(token) || []
Neighbors(graph, token) == SelectSeq(graph, LAMBDA e : e.tokenIn = token)

\* Array.from(graph.keys()): tokens in the order of their first edge
RECURSIVE GraphKeys(_, _)
GraphKeys(graph, seen) ==
  IF Len(graph) = 0 THEN seen
  ELSE GraphKeys(Tail(graph),
                 IF InSeq(Head(graph).tokenIn, seen) THEN seen
                 ELSE Append(seen, Head(graph).tokenIn))

\* findPaths: dfs(currentToken, currentTokens, currentEdges, depth) and its
\* loop over the neighbors from the i-th on; the result is the list of the
\* paths pushed, in the order they are pushed
RECURSIVE Dfs(_, _, _, _, _)
RECURSIVE DfsLoop(_, _, _, _, _, _)
Dfs(search, currentToken, currentTokens, currentEdges, depth) ==
  IF depth > search.maxHops THEN <<>>
  ELSE DfsLoop(search, Neighbors(search.graph, currentToken), 1,
               currentTokens, currentEdges, depth)

DfsLoop(search, neighbors, i, currentTokens, currentEdges, depth) ==
  IF i > Len(neighbors) THEN <<>>
  ELSE LET edge == neighbors[i]
           nextToken == edge.tokenOut
           newTokens == Append(currentTokens, nextToken)
           newEdges == Append(currentEdges, edge)
           found == [tokens |-> newTokens, edges |-> newEdges]
           rest == DfsLoop(search, neighbors, i + 1, currentTokens, currentEdges, depth)
       IN IF InSeq(nextToken, currentTokens) /\ ~search.returnToStart THEN rest
          ELSE IF search.returnToStart /\ nextToken = search.startToken
                  /\ Len(newEdges) >= 2
          THEN <<found>> \o rest
          ELSE (IF ~search.returnToStart THEN <<found>> ELSE <<>>)
                 \o Dfs(search, nextToken, newTokens, newEdges, depth + 1)
                 \o rest

FindPaths(graph, startToken, maxHops, returnToStart) ==
  Dfs([graph |-> graph, startToken |-> startToken, maxHops |-> maxHops,
       returnToStart |-> returnToStart],
      startToken, <<startToken>>, <<>>, 0)

FindTriangularPaths(graph, maxHops) ==
  LET allTokens == GraphKeys(graph, <<>>)
  IN Flatten([t \in 1..Len(allTokens) |-> FindPaths(graph, allTokens[t], maxHops, TRUE)])

\* mutant: the last edge of the path is not simulated
RECURSIVE EvaluatePath_DropLastEdge(_, _)
EvaluatePath_DropLastEdge(edges, amountIn) ==
  IF Len(edges) <= 1 THEN amountIn
  ELSE LET out == SimulateSwap(amountIn, Head(edges).reserveIn, Head(edges).reserveOut)
       IN IF out <= 0 THEN 0 ELSE EvaluatePath_DropLastEdge(Tail(edges), out)

\* evaluatePath, on the edges of the path
RECURSIVE EvaluatePath(_, _)
EvaluatePath(edges, amountIn) ==
  IF Len(edges) = 0 THEN amountIn
  ELSE LET out == SimulateSwap(amountIn, Head(edges).reserveIn, Head(edges).reserveOut)
       IN IF out <= 0 THEN 0 ELSE EvaluatePath(Tail(edges), out)

\* the record findProfitableTriangularCycles builds for one cycle
CycleResult(cycle, startAmount) ==
  LET out == EvaluatePath(cycle.edges, startAmount)
  IN [path |-> cycle, amountIn |-> startAmount, amountOut |-> out,
      profit |-> out - startAmount]

\* the loop of findProfitableTriangularCycles: the cycles that pass its two
\* tests, in the order of the cycles
ProfitableOf(cycles, startAmount, profitThreshold) ==
  SelectSeq([i \in 1..Len(cycles) |-> CycleResult(cycles[i], startAmount)],
            LAMBDA r : r.amountOut > startAmount /\ r.profit >= profitThreshold)

FindProfitableTriangularCycles(pools, startAmount, profitThreshold) ==
  ProfitableOf(FindTriangularPaths(BuildTokenGraph(pools), 3),
               startAmount, profitThreshold)

\* the pools handed to the search: the pairs A/B, B/C and A/C, each absent,
\* with one dex, or with two dexes priced in opposite directions
LowReserve == 100
HighReserve == 200
StartAmount == 10

Dex(name, reserveA, reserveB) == [name |-> name, reserveA |-> reserveA, reserveB |-> reserveB]

DexLists ==
  { <<>>,
    << Dex("d1", LowReserve, HighReserve) >>,
    << Dex("d1", HighReserve, LowReserve) >>,
    << Dex("d1", LowReserve, HighReserve), Dex("d2", HighReserve, LowReserve) >> }

PoolOf(tokenA, tokenB, dexes) ==
  IF Len(dexes) = 0 THEN <<>>
  ELSE << [tokenA |-> tokenA, tokenB |-> tokenB, dexes |-> dexes] >>

PoolLists ==
  { PoolOf("A", "B", ab) \o PoolOf("B", "C", bc) \o PoolOf("A", "C", ac) :
      ab \in DexLists, bc \in DexLists, ac \in DexLists }

ProfitThresholds == { 0, StartAmount \div 2, 4 * StartAmount }

InitCycles ==
  /\ InitSignerIdle
  /\ InitEngineIdle
  /\ InitRpcIdle
  /\ InitScanIdle
  /\ fnArgs \in [pools : PoolLists,
                  startAmount : {StartAmount},
                  profitThreshold : ProfitThresholds]
  /\ fnResult = <<>>
  /\ fnPc = "called"

CyclesApply ==
  /\ fnPc = "called"
  /\ fnResult' = FindProfitableTriangularCycles(fnArgs.pools, fnArgs.startAmount,
                                                fnArgs.profitThreshold)
  /\ fnPc' = "returned"
  /\ UNCHANGED fnArgs
  /\ FnUnchanged

NextCycles == CyclesApply

SpecCycles == InitCycles /\ [][NextCycles]_vars

\* the constant-product formula with the path search's fee, folded over the
\* edges from the i-th on
RECURSIVE FoldSwapFormula(_, _, _)
FoldSwapFormula(edges, i, current) ==
  IF i > Len(edges) THEN current
  ELSE FoldSwapFormula(edges, i + 1,
         IF current = 0 \/ edges[i].reserveIn = 0 \/ edges[i].reserveOut = 0 THEN 0
         ELSE (current * 997 * edges[i].reserveOut)
                \div (edges[i].reserveIn * 1000 + current * 997))

BreakEvenReserve == 125

EvenDexLists ==
  { <<>>,
    << Dex("d1", LowReserve, HighReserve) >>,
    << Dex("d1", LowReserve, HighReserve), Dex("d2", BreakEvenReserve, HighReserve) >> }

EvenPoolLists ==
  { PoolOf("A", "B", ab) \o PoolOf("B", "C", bc) \o PoolOf("A", "C", ac) :
      ab \in EvenDexLists, bc \in EvenDexLists, ac \in EvenDexLists }

EvenThresholds == { 0, 1, StartAmount \div 2, 4 * StartAmount }

InitEven ==
  /\ InitSignerIdle
  /\ InitEngineIdle
  /\ InitRpcIdle
  /\ InitScanIdle
  /\ fnArgs \in [pools : EvenPoolLists,
                  startAmount : {StartAmount},
                  profitThreshold : EvenThresholds]
  /\ fnResult = <<>>
  /\ fnPc = "called"

EvenApply ==
  /\ fnPc = "called"
  /\ fnResult' = FindProfitableTriangularCycles(fnArgs.pools, fnArgs.startAmount,
                                                fnArgs.profitThreshold)
  /\ fnPc' = "returned"
  /\ UNCHANGED fnArgs
  /\ FnUnchanged

NextEven == EvenApply

SpecEven == InitEven /\ [][NextEven]_vars

\* the cycles the search simulates, and whether one is among those returned
SimulatedCycles == FindTriangularPaths(BuildTokenGraph(fnArgs.pools), 3)
EmittedCycle(cycle) == \E k \in 1..Len(fnResult) : fnResult[k].path = cycle

\* C33: a simulated cycle is emitted as a triangular opportunity if and only
\* if its final amount is at least loan + min_profit, the case final = loan
\* with min_profit = 0 included.
C33_EmittedIffFinalCoversProfit ==
  fnPc = "returned" =>
    \A i \in 1..Len(SimulatedCycles) :
      EmittedCycle(SimulatedCycles[i])
        <=> (EvaluatePath(SimulatedCycles[i].edges, fnArgs.startAmount)
               >= fnArgs.startAmount + fnArgs.profitThreshold)

----------------------------------------------------------------------------
(* findPaths on its own: both modes of the search, from every start token   *)

\* the values of maxHops the callers pass, and the start tokens
HopLimits == { 2, 3 }
StartTokens == { "A", "B", "C" }

InitPaths ==
  /\ InitSignerIdle
  /\ InitEngineIdle
  /\ InitRpcIdle
  /\ InitScanIdle
  /\ fnArgs \in [pools : PoolLists,
                  startToken : StartTokens,
                  maxHops : HopLimits,
                  returnToStart : BOOLEAN]
  /\ fnResult = <<>>
  /\ fnPc = "called"

PathsApply ==
  /\ fnPc = "called"
  /\ fnResult' = FindPaths(BuildTokenGraph(fnArgs.pools), fnArgs.startToken,
                           fnArgs.maxHops, fnArgs.returnToStart)
  /\ fnPc' = "returned"
  /\ UNCHANGED fnArgs
  /\ FnUnchanged

NextPaths == PathsApply

SpecPaths == InitPaths /\ [][NextPaths]_vars

\* two positions of the token list hold the same token only when they are
\* the first and the last of a cycle
RepeatsOnlyToClose(tokens, isCycle) ==
  \A i \in 1..Len(tokens) : \A j \in (i + 1)..Len(tokens) :
    tokens[i] = tokens[j] => (isCycle /\ i = 1 /\ j = Len(tokens))

\* C30: in every path or cycle the path search emits no token appears
\* twice, except that in a cycle the start token is also the final vertex,
\* and appears nowhere in between.
C30_NoTokenTwice ==
  fnPc = "returned" =>
    \A k \in 1..Len(fnResult) :
      RepeatsOnlyToClose(fnResult[k].tokens, fnArgs.returnToStart)

\* C31: every cycle the triangular search emits (findPaths with returnToStart
\* from a start token, as findTriangularPaths calls it) ends at the token it
\* starts at and has k edges with 2 <= k <= maxHops; with maxHops = 3 every
\* emitted cycle has 2 or 3 edges.
C31_CycleLengthWithinMaxHops ==
  (fnPc = "returned" /\ fnArgs.returnToStart) =>
    \A k \in 1..Len(fnResult) :
      LET c == fnResult[k]
      IN /\ c.tokens[1] = c.tokens[Len(c.tokens)]
         /\ Len(c.tokens) = Len(c.edges) + 1
         /\ 2 <= Len(c.edges)
         /\ Len(c.edges) <= fnArgs.maxHops

----------------------------------------------------------------------------
(* buildTokenGraph on its own *)

InitGraph ==
  /\ InitSignerIdle
  /\ InitEngineIdle
  /\ InitRpcIdle
  /\ InitScanIdle
  /\ fnArgs \in [pools : PoolLists]
  /\ fnResult = <<>>
  /\ fnPc = "called"

GraphApply ==
  /\ fnPc = "called"
  /\ fnResult' = BuildTokenGraph(fnArgs.pools)
  /\ fnPc' = "returned"
  /\ UNCHANGED fnArgs
  /\ FnUnchanged

NextGraph == GraphApply

SpecGraph == InitGraph /\ [][NextGraph]_vars

\* the number of legs (dexes of pools) the token is one side of
LegsOfToken(pools, token) ==
  Len(Flatten([p \in 1..Len(pools) |->
                 IF token \in {pools[p].tokenA, pools[p].tokenB}
                 THEN pools[p].dexes ELSE <<>>]))

\* graph.get(token).length, 0 for a token that is no key of the graph
OutDegree(graph, token) == Len(Neighbors(graph, token))

\* C32 as stated: in the token graph built from a pool list, the out-degree
\* of every token equals twice the number of pool legs that token
\* participates in.
C32_OutDegreeIsTwiceLegs ==
  fnPc = "returned" =>
    \A t \in StartTokens : OutDegree(fnResult, t) = 2 * LegsOfToken(fnArgs.pools, t)

\* C32, amended: in the token graph built from a pool list, the out-degree
\* of every token equals the number of pool legs that token participates in
\* (each leg adds one edge out of each of its two tokens).
C32_OutDegreeIsLegs ==
  fnPc = "returned" =>
    \A t \in StartTokens : OutDegree(fnResult, t) = LegsOfToken(fnArgs.pools, t)

\* a token that is a side of three legs, two of them of the same pool
C32_Witness ==
  /\ fnPc = "returned"
  /\ \E t \in StartTokens : LegsOfToken(fnArgs.pools, t) = 3
  /\ Len(fnResult) > 0

----------------------------------------------------------------------------
(* executorBridge.ts: the plan builders.  An opportunity is a record with    *)
(* the fields of both shapes, those of the other shape left empty; the       *)
(* result is the plan, or the error thrown.                                  *)

Thrown(message) == [ok |-> FALSE, error |-> message]

Built(loanToken, loanAmount, steps, minProfit, beneficiary) ==
  [ok |-> TRUE, loanToken |-> loanToken, loanAmount |-> loanAmount, steps |-> steps,
   minProfit |-> minProfit, beneficiary |-> beneficiary]

BuildArbPlanFromDirect(opp, loanAmount, minProfit, beneficiary) ==
  IF opp.type # "DIRECT" THEN Thrown("Expected DIRECT opportunity")
  ELSE Built(opp.tokenA, loanAmount,
             << [router |-> opp.buyRouter, path |-> <<opp.tokenA, opp.tokenB>>,
                 amountIn |-> loanAmount, minOut |-> 1],
                [router |-> opp.sellRouter, path |-> <<opp.tokenB, opp.tokenA>>,
                 amountIn |-> 0, minOut |-> 1] >>,
             minProfit, beneficiary)

BuildArbPlanFromTriangular(opp, loanAmount, minProfit, beneficiary) ==
  IF opp.type # "TRIANGULAR" THEN Thrown("Expected TRIANGULAR opportunity")
  ELSE IF Len(opp.tokens) < 3 \/ Len(opp.tokens) # Len(opp.routers) + 1
  THEN Thrown("Invalid triangular opportunity path")
  ELSE Built(opp.tokens[1], loanAmount,
             [i \in 1..Len(opp.routers) |->
                [router |-> opp.routers[i], path |-> <<opp.tokens[i], opp.tokens[i + 1]>>,
                 amountIn |-> IF i = 1 THEN loanAmount ELSE 0, minOut |-> 1]],
             minProfit, beneficiary)

BuildArbPlanForOpportunity(opp, loanAmount, minProfit, beneficiary) ==
  IF opp.type = "DIRECT"
  THEN BuildArbPlanFromDirect(opp, loanAmount, minProfit, beneficiary)
  ELSE BuildArbPlanFromTriangular(opp, loanAmount, minProfit, beneficiary)

\* the opportunities handed to the builder
MaxPathTokens == 4
MaxPathRouters == 3
PlanLoan == 100

TokenSeqs == UNION { [1..n -> StartTokens] : n \in 2..MaxPathTokens }
RouterSeqs == { [i \in 1..n |-> i] : n \in 1..MaxPathRouters }

DirectOpps ==
  { [type |-> "DIRECT", tokenA |-> pair[1], tokenB |-> pair[2], buyRouter |-> 1,
     sellRouter |-> 2, tokens |-> <<>>, routers |-> <<>>] :
      pair \in { q \in StartTokens \X StartTokens : q[1] # q[2] } }

TriangularOpps ==
  { [type |-> ty, tokenA |-> "A", tokenB |-> "B", buyRouter |-> 1, sellRouter |-> 2,
     tokens |-> ts, routers |-> rs] :
      ty \in {"TRIANGULAR", "OTHER"}, ts \in TokenSeqs, rs \in RouterSeqs }

InitPlan ==
  /\ InitSignerIdle
  /\ InitEngineIdle
  /\ InitRpcIdle
  /\ InitScanIdle
  /\ fnArgs \in [opp : DirectOpps \cup TriangularOpps, loanAmount : {PlanLoan}]
  /\ fnResult = <<>>
  /\ fnPc = "called"

PlanApply ==
  /\ fnPc = "called"
  /\ fnResult' = BuildArbPlanForOpportunity(fnArgs.opp, fnArgs.loanAmount, 0, "beneficiary")
  /\ fnPc' = "returned"
  /\ UNCHANGED fnArgs
  /\ FnUnchanged

NextPlan == PlanApply

SpecPlan == InitPlan /\ [][NextPlan]_vars

\* the shape a plan must have
WellFormedPlan(p) ==
  /\ Len(p.steps) >= 1
  /\ p.steps[1].amountIn = p.loanAmount
  /\ \A i \in 2..Len(p.steps) : p.steps[i].amountIn = 0 /\ p.steps[i].minOut = 1
  /\ \A i \in 1..(Len(p.steps) - 1) :
        p.steps[i].path[Len(p.steps[i].path)] = p.steps[i + 1].path[1]
  /\ p.steps[1].path[1] = p.loanToken
  /\ LET last == p.steps[Len(p.steps)].path IN last[Len(last)] = p.loanToken

\* C34: every plan built by buildArbPlanForOpportunity has
\* steps[0].amountIn = loanAmount, amountIn = 0 and minOut = 1 on every
\* later step, consecutive steps chained, and a chain that starts and ends
\* at loanToken; an opportunity for which this cannot hold is rejected with
\* an error and no plan is produced.
C34_BuiltPlanWellFormed ==
  (fnPc = "returned" /\ fnResult.ok) =>
    /\ fnResult.loanAmount = fnArgs.loanAmount
    /\ WellFormedPlan(fnResult)

----------------------------------------------------------------------------
(* A swap forth and back over one leg: either swap function applied to an   *)
(* amount and then to its output with the reserves exchanged, and the        *)
(* triangular search run over the single pool that has this leg.             *)

SwapWith(fn, amountIn, reserveIn, reserveOut) ==
  IF fn = "computeAmountOut" THEN ComputeAmountOut(amountIn, reserveIn, reserveOut)
  ELSE SimulateSwap(amountIn, reserveIn, reserveOut)

OneLegPools(reserveA, reserveB) ==
  << [tokenA |-> "A", tokenB |-> "B", dexes |-> << Dex("d1", reserveA, reserveB) >>] >>

InitForthBack ==
  /\ InitSignerIdle
  /\ InitEngineIdle
  /\ InitRpcIdle
  /\ InitScanIdle
  /\ fnArgs \in [fn : {"computeAmountOut", "simulateSwap"},
                  amountIn : 0..MaxAmountIn,
                  reserveIn : Reserves,
                  reserveOut : Reserves]
  /\ fnResult = <<>>
  /\ fnPc = "called"

ForthBackApply ==
  /\ fnPc = "called"
  /\ LET out == SwapWith(fnArgs.fn, fnArgs.amountIn, fnArgs.reserveIn, fnArgs.reserveOut)
     IN fnResult' =
          [out |-> out,
           back |-> SwapWith(fnArgs.fn, out, fnArgs.reserveOut, fnArgs.reserveIn),
           cycles |-> FindProfitableTriangularCycles(
                        OneLegPools(fnArgs.reserveIn, fnArgs.reserveOut), fnArgs.amountIn, 0)]
  /\ fnPc' = "returned"
  /\ UNCHANGED fnArgs
  /\ FnUnchanged

NextForthBack == ForthBackApply

SpecForthBack == InitForthBack /\ [][NextForthBack]_vars

\* C40: for positive reserves and any amount_in, the simulated swap output
\* is strictly less than reserve_out, and swapping A -> B and then back
\* B -> A through the same pool leg returns at most amount_in; so no cycle
\* that goes forth and back over one pool leg is emitted as profitable.
C40_NoProfitFromOneLeg ==
  (fnPc = "returned" /\ fnArgs.reserveIn > 0 /\ fnArgs.reserveOut > 0) =>
    /\ fnResult.out < fnArgs.reserveOut
    /\ fnResult.back <= fnArgs.amountIn
    /\ fnResult.cycles = <<>>

\* a swap whose way back still returns something, through deep reserves
C40_Witness ==
  /\ fnPc = "returned"
  /\ fnArgs.fn = "simulateSwap"
  /\ fnArgs.reserveIn > 0
  /\ fnArgs.reserveOut > fnArgs.reserveIn
  /\ fnResult.out > fnArgs.amountIn
  /\ fnResult.back > 0
  /\ fnResult.back < fnArgs.amountIn

----------------------------------------------------------------------------
(* opportunityFinder.ts: checkDirectArb.  An entry of pools is one leg,      *)
(* [dex, tokenA, tokenB, reserve0, reserve1], reserve0 being the reserve of  *)
(* its tokenA.                                                               *)

\* pools.filter(...): the legs of the pair, in either orientation
PoolsAB(pools, tokenA, tokenB) ==
  SelectSeq(pools, LAMBDA p : \/ (p.tokenA = tokenA /\ p.tokenB = tokenB)
                              \/ (p.tokenA = tokenB /\ p.tokenB = tokenA))

\* forward trade A -> B on the buy pool
DirectOut1(buyPool, tokenA, loanAmount) ==
  IF buyPool.tokenA = tokenA
  THEN ComputeAmountOut(loanAmount, buyPool.reserve0, buyPool.reserve1)
  ELSE ComputeAmountOut(loanAmount, buyPool.reserve1, buyPool.reserve0)

\* backward trade B -> A on the sell pool
DirectOut2(sellPool, tokenB, out1) ==
  IF sellPool.tokenA = tokenB
  THEN ComputeAmountOut(out1, sellPool.reserve0, sellPool.reserve1)
  ELSE ComputeAmountOut(out1, sellPool.reserve1, sellPool.reserve0)

\* mutant: every simulated pair is pushed
DirectEmitted_Always(profit) == TRUE

\* if (profit > 0n)
DirectEmitted(profit) == profit > 0

\* mutant: the two legs are recorded in each other's place
DirectOpportunity_LegsSwapped(buyPool, sellPool, tokenA, tokenB, loanAmount, profit) ==
  [type |-> "DIRECT", tokenA |-> tokenA, tokenB |-> tokenB,
   buyDex |-> sellPool.dex, sellDex |-> buyPool.dex,
   profit |-> profit,
   profitPct |-> [num |-> profit * 100, den |-> loanAmount],
   path |-> <<sellPool.dex, buyPool.dex>>]

\* the record pushed; profitPct is kept as the exact ratio
DirectOpportunity(buyPool, sellPool, tokenA, tokenB, loanAmount, profit) ==
  [type |-> "DIRECT", tokenA |-> tokenA, tokenB |-> tokenB,
   buyDex |-> buyPool.dex, sellDex |-> sellPool.dex,
   profit |-> profit,
   profitPct |-> [num |-> profit * 100, den |-> loanAmount],
   path |-> <<buyPool.dex, sellPool.dex>>]

\* one iteration of the inner loop: what it pushes
DirectPair(poolsAB, i, j, tokenA, tokenB, loanAmount) ==
  IF i = j THEN <<>>
  ELSE LET buyPool == poolsAB[i]
           sellPool == poolsAB[j]
           out1 == DirectOut1(buyPool, tokenA, loanAmount)
           out2 == DirectOut2(sellPool, tokenB, out1)
           profit == out2 - loanAmount
       IN IF out1 = 0 THEN <<>>
          ELSE IF DirectEmitted(profit)
          THEN << DirectOpportunity(buyPool, sellPool, tokenA, tokenB, loanAmount, profit) >>
          ELSE <<>>

CheckDirectArb(pools, tokenA, tokenB, loanAmount) ==
  LET poolsAB == PoolsAB(pools, tokenA, tokenB)
      n == Len(poolsAB)
  IN IF n < 2 THEN <<>>
     ELSE Flatten([i \in 1..n |->
            Flatten([j \in 1..n |->
              DirectPair(poolsAB, i, j, tokenA, tokenB, loanAmount)])])

\* the legs offered: the two of scenario S1, the first of them stored in the
\* other orientation, a leg of another pair, and a leg without reserves
MaxLegs == 3
S1Loan == 100

LegL1 == [dex |-> "L1", tokenA |-> "A", tokenB |-> "B",
          reserve0 |-> 1000000, reserve1 |-> 1050000]
LegL2 == [dex |-> "L2", tokenA |-> "A", tokenB |-> "B",
          reserve0 |-> 1000000, reserve1 |-> 950000]
LegL3 == [dex |-> "L3", tokenA |-> "B", tokenB |-> "A",
          reserve0 |-> 1050000, reserve1 |-> 1000000]
LegL4 == [dex |-> "L4", tokenA |-> "A", tokenB |-> "C",
          reserve0 |-> 1000000, reserve1 |-> 1050000]
LegL5 == [dex |-> "L5", tokenA |-> "A", tokenB |-> "B",
          reserve0 |-> 0, reserve1 |-> 0]

Legs == { LegL1, LegL2, LegL3, LegL4, LegL5 }

\* lists of distinct legs
LegLists ==
  UNION { { l \in [1..n -> Legs] : \A i, j \in 1..n : i # j => l[i] # l[j] } :
          n \in 0..MaxLegs }

LoanAmounts == { S1Loan, 1 }

InitDirect ==
  /\ InitSignerIdle
  /\ InitEngineIdle
  /\ InitRpcIdle
  /\ InitScanIdle
  /\ fnArgs \in [pools : LegLists,
                  tokenA : {"A", "B"},
                  tokenB : {"A", "B"},
                  loanAmount : LoanAmounts]
  /\ fnArgs.tokenA # fnArgs.tokenB
  /\ fnResult = <<>>
  /\ fnPc = "called"

DirectApply ==
  /\ fnPc = "called"
  /\ fnResult' = CheckDirectArb(fnArgs.pools, fnArgs.tokenA, fnArgs.tokenB,
                                fnArgs.loanAmount)
  /\ fnPc' = "returned"
  /\ UNCHANGED fnArgs
  /\ FnUnchanged

NextDirect == DirectApply

SpecDirect == InitDirect /\ [][NextDirect]_vars

\* a / b > c / d for non-negative a, c and positive b, d, without a product
RECURSIVE GreaterRatio(_, _, _, _)
GreaterRatio(a, b, c, d) ==
  IF a \div b # c \div d THEN a \div b > c \div d
  ELSE IF a % b = 0 THEN FALSE
  ELSE IF c % d = 0 THEN TRUE
  ELSE GreaterRatio(d, c % d, b, a % b)

\* the leg of the pools argument that a recorded dex names
LegOfDex(dex) == CHOOSE p \in { fnArgs.pools[i] : i \in 1..Len(fnArgs.pools) } : p.dex = dex

\* the reserve a leg holds of a token of its pair
ReserveOf(leg, token) == IF leg.tokenA = token THEN leg.reserve0 ELSE leg.reserve1

\* leg x is priced higher than leg y: its reserve of b per reserve of a is larger
HigherPriced(x, y, a, b) ==
  /\ ReserveOf(x, a) > 0
  /\ ReserveOf(y, a) > 0
  /\ GreaterRatio(ReserveOf(x, b), ReserveOf(x, a), ReserveOf(y, b), ReserveOf(y, a))

\* the legs of the pair of the call among the pools
LegsOfPair ==
  { i \in 1..Len(fnArgs.pools) :
      {fnArgs.pools[i].tokenA, fnArgs.pools[i].tokenB} = {fnArgs.tokenA, fnArgs.tokenB} }

\* the call of scenario S1: the legs L1 and L2, a loan of 100 of token A
ScenarioS1 ==
  /\ fnArgs.pools \in { <<LegL1, LegL2>>, <<LegL2, LegL1>> }
  /\ fnArgs.tokenA = "A"
  /\ fnArgs.tokenB = "B"
  /\ fnArgs.loanAmount = S1Loan

\* a loan swapped a -> b on leg x and then b -> a on leg y
RoundTrip(x, y, a, b, loan) ==
  ComputeAmountOut(ComputeAmountOut(loan, ReserveOf(x, a), ReserveOf(x, b)),
                   ReserveOf(y, b), ReserveOf(y, a))

C20_DirectLegsDistinctProfitPositive ==
  fnPc = "returned" =>
    /\ \A k \in 1..Len(fnResult) :
         \E i, j \in LegsOfPair :
           /\ i # j
           /\ fnArgs.pools[i].dex = fnResult[k].buyDex
           /\ fnArgs.pools[j].dex = fnResult[k].sellDex
           /\ fnResult[k].profit =
                RoundTrip(fnArgs.pools[i], fnArgs.pools[j],
                          fnArgs.tokenA, fnArgs.tokenB, fnArgs.loanAmount)
                  - fnArgs.loanAmount
           /\ fnResult[k].profit > 0
    /\ Cardinality(LegsOfPair) = 1 => fnResult = <<>>

\* opportunities are returned for a pair that has three legs
C20_Witness ==
  /\ fnPc = "returned"
  /\ Cardinality(LegsOfPair) = 3
  /\ Len(fnResult) >= 2

----------------------------------------------------------------------------
(* opportunityFinder.ts: checkTriangularArb and findOpportunities *)

\* pools.find(...): the first leg of the pair x / y, as a list of at most one
FindPool(pools, x, y) ==
  LET found == PoolsAB(pools, x, y)
  IN IF Len(found) = 0 THEN <<>> ELSE <<found[1]>>

\* one hop of the triangle on pool p, entered with token tokenIn
TriangularOut(p, tokenIn, amountIn) ==
  IF p.tokenA = tokenIn
  THEN ComputeAmountOut(amountIn, p.reserve0, p.reserve1)
  ELSE ComputeAmountOut(amountIn, p.reserve1, p.reserve0)

CheckTriangularArb(pools, tokenA, tokenB, tokenC, loanAmount) ==
  LET pAB == FindPool(pools, tokenA, tokenB)
      pBC == FindPool(pools, tokenB, tokenC)
      pCA == FindPool(pools, tokenC, tokenA)
  IN IF pAB = <<>> \/ pBC = <<>> \/ pCA = <<>> THEN <<>>
     ELSE LET out1 == TriangularOut(pAB[1], tokenA, loanAmount)
              out2 == TriangularOut(pBC[1], tokenB, out1)
              out3 == TriangularOut(pCA[1], tokenC, out2)
              profit == out3 - loanAmount
          IN IF out1 = 0 THEN <<>>
             ELSE IF out2 = 0 THEN <<>>
             ELSE IF profit > 0
             THEN << [type |-> "TRIANGULAR", tokenA |-> tokenA, tokenB |-> tokenB,
                      tokenC |-> tokenC, profit |-> profit,
                      profitPct |-> [num |-> profit * 100, den |-> loanAmount],
                      path |-> <<pAB[1].dex, pBC[1].dex, pCA[1].dex>>] >>
             ELSE <<>>

\* mutant: the comparator subtracts the profits themselves
ProfitCompare_Exact(x, y) == y.profit - x.profit

\* (a, b) => Number(b.profit) - Number(a.profit)
ProfitCompare(x, y) == ToNumber(y.profit) - ToNumber(x.profit)

\* Array.prototype.sort with that comparator: a stable sort, so an element
\* goes in front of the first one the comparator puts after it
InsertByProfit(sorted, x) ==
  LET later == { i \in 1..Len(sorted) : ProfitCompare(x, sorted[i]) < 0 }
      at == IF later = {} THEN Len(sorted) + 1
            ELSE CHOOSE i \in later : \A k \in later : i <= k
  IN SubSeq(sorted, 1, at - 1) \o <<x>> \o SubSeq(sorted, at, Len(sorted))

RECURSIVE SortByProfit(_)
SortByProfit(opps) ==
  IF Len(opps) = 0 THEN <<>>
  ELSE InsertByProfit(SortByProfit(SubSeq(opps, 1, Len(opps) - 1)), opps[Len(opps)])

\* the DIRECT ARB CHECKS loops
DirectChecks(pools, allTokens, loanAmount) ==
  Flatten([t1 \in 1..Len(allTokens) |->
    Flatten([t2 \in 1..Len(allTokens) |->
      IF allTokens[t1] = allTokens[t2] THEN <<>>
      ELSE CheckDirectArb(pools, allTokens[t1], allTokens[t2], loanAmount)])])

\* the TRIANGULAR ARB CHECKS loops
TriangularChecks(pools, allTokens, loanAmount) ==
  Flatten([t1 \in 1..Len(allTokens) |->
    Flatten([t2 \in 1..Len(allTokens) |->
      Flatten([t3 \in 1..Len(allTokens) |->
        IF \/ allTokens[t1] = allTokens[t2]
           \/ allTokens[t2] = allTokens[t3]
           \/ allTokens[t1] = allTokens[t3]
        THEN <<>>
        ELSE CheckTriangularArb(pools, allTokens[t1], allTokens[t2], allTokens[t3],
                                loanAmount)])])])

\* findOpportunities; allTokens is what getAllTokens() returns
FindOpportunities(pools, allTokens, loanAmount) ==
  SortByProfit(DirectChecks(pools, allTokens, loanAmount)
                 \o TriangularChecks(pools, allTokens, loanAmount))

\* the pool snapshot: two legs of A/B priced apart, a leg of B/C and a leg
\* of A/C that close a profitable triangle
FindLoan == 2000

LegM1 == [dex |-> "M1", tokenA |-> "A", tokenB |-> "B",
          reserve0 |-> 20000, reserve1 |-> 24000]
LegM2 == [dex |-> "M2", tokenA |-> "A", tokenB |-> "B",
          reserve0 |-> 20000, reserve1 |-> 16000]
LegM3 == [dex |-> "M3", tokenA |-> "B", tokenB |-> "C",
          reserve0 |-> 20000, reserve1 |-> 24000]
LegM4 == [dex |-> "M4", tokenA |-> "A", tokenB |-> "C",
          reserve0 |-> 24000, reserve1 |-> 20000]

FindLegs == { LegM1, LegM2, LegM3, LegM4 }

FindLegLists ==
  UNION { { l \in [1..n -> FindLegs] : \A i, j \in 1..n : i # j => l[i] # l[j] } :
          n \in 0..MaxLegs }

TokenLists == { <<"A", "B", "C">>, <<"B", "A", "C">>, <<"C", "B", "A">> }

InitFind ==
  /\ InitSignerIdle
  /\ InitEngineIdle
  /\ InitRpcIdle
  /\ InitScanIdle
  /\ fnArgs \in [pools : FindLegLists,
                  allTokens : TokenLists,
                  loanAmount : { FindLoan, FindLoan \div 2 }]
  /\ fnResult = <<>>
  /\ fnPc = "called"

FindApply ==
  /\ fnPc = "called"
  /\ fnResult' = FindOpportunities(fnArgs.pools, fnArgs.allTokens, fnArgs.loanAmount)
  /\ fnPc' = "returned"
  /\ UNCHANGED fnArgs
  /\ FnUnchanged

NextFind == FindApply

SpecFind == InitFind /\ [][NextFind]_vars

\* C21: the list findOpportunities returns is sorted by profit descending,
\* ties broken by profit_pct descending and then by path length ascending,
\* so its first element has the maximum profit.
C21_SortedByProfit ==
  fnPc = "returned" =>
    /\ \A i, j \in 1..Len(fnResult) :
         i < j =>
           \/ fnResult[i].profit > fnResult[j].profit
           \/ /\ fnResult[i].profit = fnResult[j].profit
              /\ fnResult[i].profitPct.num * fnResult[j].profitPct.den
                   >= fnResult[j].profitPct.num * fnResult[i].profitPct.den
              /\ Len(fnResult[i].path) <= Len(fnResult[j].path)
    /\ \A j \in 1..Len(fnResult) : fnResult[1].profit >= fnResult[j].profit

----------------------------------------------------------------------------
(* poolScanner.ts: loadAllPairs and scanPools, one action per await.  Pair   *)
(* addresses are numbers; the chain holds for each of them what its          *)
(* contract answers.  Reserves are in whole tokens, timestamps in seconds.   *)

STALE_SECONDS == 600
MIN_LIQ_USD == 20000

\* token addresses, numbered in the order of their lowercased hex strings
USDT == 1          \* 0x7ef9...
WBNB == 2          \* 0xae13...
BUSD == 3          \* 0xed24...
CAKE == 4          \* 0xfa60...
OtherToken == 5    \* an address symbolFromKnown does not know

\* USD_MAP[symbolFromKnown(token)] || 0
UsdPrice(token) ==
  CASE token = WBNB -> 580
    [] token = BUSD -> 1
    [] token = USDT -> 1
    [] token = CAKE -> 3
    [] OTHER -> 0

\* ROUTERS with the pair list of each one's factory
ScanVenues == << [name |-> "v1", pairs |-> <<1>>], [name |-> "v2", pairs |-> <<2>>] >>

\* where the calls made for one venue fail: nowhere, at router.factory(), at
\* factory.allPairsLength(), or at the last factory.allPairs(i)
FailPoints == { "none", "factory", "pairCount", "allPairs" }

\* the pairs loadAllPairs pushes for one venue
PairsOfVenue(venue, failAt) ==
  LET kept == CASE failAt = "none" -> venue.pairs
                [] failAt = "allPairs" -> SubSeq(venue.pairs, 1, Len(venue.pairs) - 1)
                [] OTHER -> <<>>
  IN [i \in 1..Len(kept) |-> [dex |-> venue.name, pairAddr |-> kept[i]]]

LoadAllPairs(venues, fail) ==
  Flatten([v \in 1..Len(venues) |-> PairsOfVenue(venues[v], fail[v])])

\* what one batchRpc call over n calls (one batch) can return: the slots
\* written by position from any response of the provider, null elsewhere;
\* slot value k stands for the reply to call k
NativeResults(n) ==
  { WriteResponse([k \in 1..n |-> Null], 0, response, Min(Len(response), n)) :
      response \in BatchResponses(0, n) }

\* f0 * p0 + f1 * p1 on floating-point numbers
LiqUsd(reserve0, reserve1, token0, token1) ==
  ToNumber(ToNumber(ToNumber(reserve0) * UsdPrice(token0))
             + ToNumber(ToNumber(reserve1) * UsdPrice(token1)))

\* mutant: the liquidity floor is not applied
BelowLiquidityFloor_Never(liqUsd) == FALSE

\* liqUsd < SETTINGS.MIN_LIQ_USD
BelowLiquidityFloor(liqUsd) == liqUsd < MIN_LIQ_USD

\* blockTimestampLast === 0 || blockTimestampLast < staleCutoff
IsStale(blockTimestampLast, staleCutoff) ==
  blockTimestampLast = 0 \/ blockTimestampLast < staleCutoff

\* the index of the pool with these tokens in the map, 0 if it has none
PoolIndex(pools, tokenA, tokenB) ==
  LET at == { k \in 1..Len(pools) : pools[k].tokenA = tokenA /\ pools[k].tokenB = tokenB }
  IN IF at = {} THEN 0 ELSE CHOOSE k \in at : TRUE

\* what iteration i of the loop of scanPools decodes from its three slots;
\* scan holds rawPairs and the three result arrays
Decoded(chain, scan, i) ==
  [token0 |-> chain[scan.rawPairs[scan.token0Results[i]].pairAddr].token0,
   token1 |-> chain[scan.rawPairs[scan.token1Results[i]].pairAddr].token1,
   reserve0 |-> chain[scan.rawPairs[scan.reserveResults[i]].pairAddr].reserve0,
   reserve1 |-> chain[scan.rawPairs[scan.reserveResults[i]].pairAddr].reserve1,
   blockTimestampLast |->
     chain[scan.rawPairs[scan.reserveResults[i]].pairAddr].blockTimestampLast]

\* iteration i gets as far as decoding, and the decoding does not throw
Decodes(chain, scan, i) ==
  /\ scan.token0Results[i] # Null
  /\ scan.token1Results[i] # Null
  /\ scan.reserveResults[i] # Null
  /\ chain[scan.rawPairs[scan.token0Results[i]].pairAddr].decodes
  /\ chain[scan.rawPairs[scan.token1Results[i]].pairAddr].decodes
  /\ chain[scan.rawPairs[scan.reserveResults[i]].pairAddr].decodes

\* the dex entry pushed by iteration i
ScannedDex(scan, i, d) ==
  LET tokenAIs0 == d.token0 < d.token1
  IN [name |-> scan.rawPairs[i].dex,
      pair |-> scan.rawPairs[i].pairAddr,
      reserveA |-> IF tokenAIs0 THEN d.reserve0 ELSE d.reserve1,
      reserveB |-> IF tokenAIs0 THEN d.reserve1 ELSE d.reserve0,
      price |-> IF tokenAIs0 THEN [num |-> d.reserve1, den |-> d.reserve0]
                ELSE [num |-> d.reserve0, den |-> d.reserve1],
      liquidityUsd |-> LiqUsd(d.reserve0, d.reserve1, d.token0, d.token1),
      lastUpdate |-> d.blockTimestampLast]

\* the pools map after iteration i of the loop
ScanPair(pools, chain, scan, staleCutoff, i) ==
  IF ~Decodes(chain, scan, i) THEN pools
  ELSE LET d == Decoded(chain, scan, i)
           tokenA == IF d.token0 < d.token1 THEN d.token0 ELSE d.token1
           tokenB == IF d.token0 < d.token1 THEN d.token1 ELSE d.token0
           withPool == IF PoolIndex(pools, tokenA, tokenB) = 0
                       THEN Append(pools, [tokenA |-> tokenA, tokenB |-> tokenB,
                                           dexes |-> <<>>])
                       ELSE pools
           k == PoolIndex(withPool, tokenA, tokenB)
       IN IF IsStale(d.blockTimestampLast, staleCutoff) THEN pools
          ELSE IF BelowLiquidityFloor(LiqUsd(d.reserve0, d.reserve1, d.token0, d.token1))
          THEN withPool
          ELSE [withPool EXCEPT ![k].dexes = Append(@, ScannedDex(scan, i, d))]

\* the loop of scanPools over rawPairs, up to iteration i
RECURSIVE ScanLoop(_, _, _, _)
ScanLoop(chain, scan, staleCutoff, i) ==
  IF i = 0 THEN <<>>
  ELSE ScanPair(ScanLoop(chain, scan, staleCutoff, i - 1), chain, scan, staleCutoff, i)

\* what the pair contracts hold: pair 1 is a WBNB/BUSD pair, liquid or not;
\* pair 2 is the same pair on the other venue with its tokens the other way
\* round, fresh, at the stale cutoff, stale, never updated, illiquid, not a
\* pair contract at all, or a pair of two other tokens
LatestTs == 1000000

PairsOne ==
  { [token0 |-> WBNB, token1 |-> BUSD, reserve0 |-> 40, reserve1 |-> 23000,
     blockTimestampLast |-> 999900, decodes |-> TRUE],
    [token0 |-> WBNB, token1 |-> OtherToken, reserve0 |-> 30, reserve1 |-> 50000,
     blockTimestampLast |-> 999900, decodes |-> TRUE] }

PairsTwo ==
  { [token0 |-> BUSD, token1 |-> WBNB, reserve0 |-> 22000, reserve1 |-> 41,
     blockTimestampLast |-> ts, decodes |-> TRUE] :
      ts \in { 999900, LatestTs - STALE_SECONDS, 999000, 0 } }
  \cup
  { [token0 |-> BUSD, token1 |-> WBNB, reserve0 |-> 9000, reserve1 |-> 10,
     blockTimestampLast |-> 999900, decodes |-> TRUE],
    [token0 |-> BUSD, token1 |-> WBNB, reserve0 |-> 22000, reserve1 |-> 41,
     blockTimestampLast |-> 999900, decodes |-> FALSE],
    [token0 |-> CAKE, token1 |-> USDT, reserve0 |-> 9000, reserve1 |-> 30000,
     blockTimestampLast |-> 999900, decodes |-> TRUE] }

NoScan ==
  [fail |-> <<>>, rawPairs |-> <<>>, token0Results |-> <<>>, token1Results |-> <<>>,
   reserveResults |-> <<>>, nowTs |-> Null, pools |-> <<>>]

InitScanPools ==
  /\ InitSignerIdle
  /\ InitEngineIdle
  /\ InitRpcIdle
  /\ InitScanIdle
  /\ fnArgs \in { <<one, two>> : one \in PairsOne, two \in PairsTwo }
  /\ fnResult = NoScan
  /\ fnPc = "called"

\* await loadAllPairs(provider): every failing call is caught inside
LoadAllPairsReturns(fail) ==
  /\ fnPc = "called"
  /\ fnResult' = [fnResult EXCEPT !.fail = fail,
                                  !.rawPairs = LoadAllPairs(ScanVenues, fail)]
  /\ fnPc' = "loaded"
  /\ UNCHANGED fnArgs
  /\ FnUnchanged

\* await Promise.all of the three batchRpc calls
BatchReadsReturn(t0, t1, res) ==
  /\ fnPc = "loaded"
  /\ fnResult' = [fnResult EXCEPT !.token0Results = t0, !.token1Results = t1,
                                  !.reserveResults = res]
  /\ fnPc' = "read"
  /\ UNCHANGED fnArgs
  /\ FnUnchanged

\* await provider.getBlock("latest") resolves, with a block or with null
\* (then the local clock is read); the loop runs and scanPools returns
GetBlockResolves(nowTs) ==
  /\ fnPc = "read"
  /\ fnResult' = [fnResult EXCEPT
       !.nowTs = nowTs,
       !.pools = ScanLoop(fnArgs, fnResult, nowTs - STALE_SECONDS, Len(fnResult.rawPairs))]
  /\ fnPc' = "returned"
  /\ UNCHANGED fnArgs
  /\ FnUnchanged

\* await provider.getBlock("latest") rejects: nothing catches it
GetBlockRejects ==
  /\ fnPc = "read"
  /\ fnPc' = "raised"
  /\ UNCHANGED <<fnArgs, fnResult>>
  /\ FnUnchanged

NextScanPools ==
  \/ \E fail \in [1..Len(ScanVenues) -> FailPoints] : LoadAllPairsReturns(fail)
  \/ \E t0, t1, res \in NativeResults(Len(fnResult.rawPairs)) : BatchReadsReturn(t0, t1, res)
  \/ \E nowTs \in { LatestTs, LatestTs + STALE_SECONDS } : GetBlockResolves(nowTs)
  \/ GetBlockRejects

SpecScanPools == InitScanPools /\ [][NextScanPools]_vars

----------------------------------------------------------------------------
(* Claims checked against SpecScanPools *)

\* the legs of the scan output, each with the tokens of its pool
ScannedLegs ==
  UNION { { [tokenA |-> fnResult.pools[k].tokenA, tokenB |-> fnResult.pools[k].tokenB,
             leg |-> fnResult.pools[k].dexes[l]] :
              l \in 1..Len(fnResult.pools[k].dexes) } :
          k \in 1..Len(fnResult.pools) }

\* the iteration of the loop that handles a pair address
IterationOf(pairAddr) ==
  CHOOSE i \in 1..Len(fnResult.rawPairs) : fnResult.rawPairs[i].pairAddr = pairAddr

\* the provider answered call i of a batchRpc call with a result
ReadSucceeded(results, i) == \E k \in 1..Len(results) : results[k] = i

\* what the contract of a pair holds of a token
ReserveOnChain(pairAddr, token) ==
  IF fnArgs[pairAddr].token0 = token THEN fnArgs[pairAddr].reserve0
  ELSE fnArgs[pairAddr].reserve1

\* C22: every pool returned has token_a < token_b, and for every leg
\* reserve_a is the reserve its pair holds of token_a and reserve_b the
\* reserve it holds of token_b, whichever of them the pair reports as token0.
C22_CanonicalOrientation ==
  fnPc = "returned" =>
    /\ \A k \in 1..Len(fnResult.pools) : fnResult.pools[k].tokenA < fnResult.pools[k].tokenB
    /\ \A x \in ScannedLegs :
         /\ {x.tokenA, x.tokenB} = {fnArgs[x.leg.pair].token0, fnArgs[x.leg.pair].token1}
         /\ x.leg.reserveA = ReserveOnChain(x.leg.pair, x.tokenA)
         /\ x.leg.reserveB = ReserveOnChain(x.leg.pair, x.tokenB)

\* C23: a pair contributes a leg only if its three reads succeeded and
\* decoded and its block_timestamp_last is non-zero and not below
\* latest_ts - STALE_SECONDS (999,000 is dropped at latest_ts 1,000,000).
C23_LegOnlyFromFreshReads ==
  fnPc = "returned" =>
    \A x \in ScannedLegs :
      LET i == IterationOf(x.leg.pair)
          onChain == fnArgs[x.leg.pair]
      IN /\ ReadSucceeded(fnResult.token0Results, i)
         /\ ReadSucceeded(fnResult.token1Results, i)
         /\ ReadSucceeded(fnResult.reserveResults, i)
         /\ onChain.decodes
         /\ onChain.blockTimestampLast # 0
         /\ onChain.blockTimestampLast >= fnResult.nowTs - STALE_SECONDS

\* the liquidity scanPools estimates in iteration i
EstimatedLiquidity(i) ==
  LET d == Decoded(fnArgs, fnResult, i)
  IN LiqUsd(d.reserve0, d.reserve1, d.token0, d.token1)

\* the iterations that get as far as the liquidity estimate, and find it
\* below the floor
Illiquid ==
  { i \in 1..Len(fnResult.rawPairs) :
      /\ Decodes(fnArgs, fnResult, i)
      /\ EstimatedLiquidity(i) < MIN_LIQ_USD }

\* C24: every leg returned has liquidity_usd >= MIN_LIQ_USD; a pair whose
\* estimated liquidity is below the floor contributes no leg, and when every
\* pair scanned is below it the output gives no edge and no opportunity.
C24_LiquidityFloor ==
  fnPc = "returned" =>
    /\ \A x \in ScannedLegs : x.leg.liquidityUsd >= MIN_LIQ_USD
    /\ \A i \in Illiquid :
         \A x \in ScannedLegs : x.leg.pair # fnResult.rawPairs[i].pairAddr
    /\ Illiquid = 1..Len(fnResult.rawPairs) =>
         /\ BuildTokenGraph(fnResult.pools) = <<>>
         /\ FindProfitableTriangularCycles(fnResult.pools, 1, 0) = <<>>

\* two pairs were scanned and found fresh, and both fell below the floor
C24_Witness ==
  /\ fnPc = "returned"
  /\ Len(fnResult.rawPairs) = 2
  /\ Illiquid = {1, 2}
  /\ fnResult.nowTs = LatestTs
  /\ Len(fnResult.pools) = 2

\* C37: every Pool returned by scanPools has at least one leg: a token pair
\* all of whose pairs were dropped by the liquidity floor does not appear in
\* the output as a Pool with an empty leg list.
C37_NoPoolWithoutLegs ==
  fnPc = "returned" =>
    \A k \in 1..Len(fnResult.pools) : Len(fnResult.pools[k].dexes) >= 1

\* the pairs of the venues whose calls all succeeded, in the order of ROUTERS
PairsOfHealthyVenues ==
  Flatten([v \in 1..Len(ScanVenues) |->
             IF fnResult.fail[v] = "none"
             THEN [i \in 1..Len(ScanVenues[v].pairs) |->
                     [dex |-> ScanVenues[v].name, pairAddr |-> ScanVenues[v].pairs[i]]]
             ELSE <<>>])

\* C25: whatever RPC calls fail during a scan, the scanner returns a pool
\* list and does not raise; a failing factory or pair-count call skips that
\* venue only, and a failing read of a pair skips that pair only.
C25_ScanNeverRaises ==
  /\ fnPc # "raised"
  /\ fnPc \in {"loaded", "read", "returned"} =>
       \A v \in 1..Len(ScanVenues) :
         /\ fnResult.fail[v] \in {"factory", "pairCount"} =>
              \A i \in 1..Len(fnResult.rawPairs) :
                fnResult.rawPairs[i].dex # ScanVenues[v].name
         /\ fnResult.fail[v] = "none" =>
              \A k \in 1..Len(ScanVenues[v].pairs) :
                \E i \in 1..Len(fnResult.rawPairs) :
                  fnResult.rawPairs[i] = [dex |-> ScanVenues[v].name,
                                          pairAddr |-> ScanVenues[v].pairs[k]]
  /\ fnPc = "returned" =>
       \A i \in 1..Len(fnResult.rawPairs) :
         ( /\ fnResult.token0Results[i] = i
           /\ fnResult.token1Results[i] = i
           /\ fnResult.reserveResults[i] = i
           /\ Decodes(fnArgs, fnResult, i)
           /\ ~IsStale(fnArgs[fnResult.rawPairs[i].pairAddr].blockTimestampLast,
                       fnResult.nowTs - STALE_SECONDS)
           /\ EstimatedLiquidity(i) >= MIN_LIQ_USD )
         => \E x \in ScannedLegs : x.leg.pair = fnResult.rawPairs[i].pairAddr

----------------------------------------------------------------------------
(* The setInterval scan driver: runScanLoop() is called once at start-up and  *)
(* then by a timer every SCAN_INTERVAL ms.  Each invocation awaits            *)
(* scanAllPools(provider) once and returns; the timer does not wait for it.   *)
(* How long a scan takes is up to the RPC provider, so the timer may fire at  *)
(* any point of a scan.                                                       *)

MaxInvocations == 4

ScanInvocationUnchanged == UNCHANGED <<guardVars, nonceVars, pipeVars, rpcVars, fnVars>>

\* runScanLoop(); (the start-up call, suspended at await scanAllPools)
InitInterval ==
  /\ InitSignerIdle
  /\ InitEngineIdle
  /\ InitRpcIdle
  /\ InitFnIdle
  /\ scanCalls = <<"scanning">>

\* The timer fires: runScanLoop() is entered and suspends at its await.
IntervalFires ==
  /\ Len(scanCalls) < MaxInvocations
  /\ scanCalls' = Append(scanCalls, "scanning")
  /\ ScanInvocationUnchanged

\* scanAllPools resolves with poolCount pools.
ScanResolves(i, poolCount) ==
  /\ scanCalls[i] = "scanning"
  /\ scanCalls' = [scanCalls EXCEPT ![i] = IF poolCount = 0 THEN "noPools"
                                          ELSE "discovered"]
  /\ ScanInvocationUnchanged

\* scanAllPools rejects; the catch logs the error.
ScanRejects(i) ==
  /\ scanCalls[i] = "scanning"
  /\ scanCalls' = [scanCalls EXCEPT ![i] = "failed"]
  /\ ScanInvocationUnchanged

NextInterval ==
  \/ IntervalFires
  \/ \E i \in DOMAIN scanCalls, poolCount \in 0..1 : ScanResolves(i, poolCount)
  \/ \E i \in DOMAIN scanCalls : ScanRejects(i)

SpecInterval == InitInterval /\ [][NextInterval]_vars

ScansInProgress == { i \in DOMAIN scanCalls : scanCalls[i] = "scanning" }

----------------------------------------------------------------------------
(* Claims checked against SpecInterval *)

\* C5: at most one scan is in progress at any time; a new scan never begins
\* while the previous one is still awaiting its RPC results.
C5_AtMostOneScanInProgress == Cardinality(ScansInProgress) <= 1

====
